---- MODULE Spec2Model ----
(***************************************************************************)
(* fancy_grocery_list: the session state machine of the `grocery` command  *)
(* line tool (cli.py, session.py), the pantry check (pantry.py), the       *)
(* checklist formatter (formatter.py) and the Staples / Pantry stores.     *)
(*                                                                         *)
(* Representation.  A Python str is a sequence of tokens (a token is a     *)
(* word, a single character, or the blank " "), so that concatenation and  *)
(* strip() are computed and not assumed.  Optional[T] is a sequence of     *)
(* length 0 (None) or 1.  Optional[bool] (confirmed_have) is one of the    *)
(* strings "None", "True", "False".  The directory ~/.grocery_lists is     *)
(* the variables store (the <id>.json files), current (current.json),      *)
(* artifacts (the <id>.txt files), staples (staples.json) and pantry       *)
(* (pantry.json).  The timestamps created_at / updated_at are left out.    *)
(* The variable call holds one call of a pure function (process,           *)
(* format_grocery_list) with its arguments and its result, for the         *)
(* specifications that exercise these functions on their own.              *)
(***************************************************************************)
EXTENDS Integers, Sequences, FiniteSets, Bags, TLC

VARIABLES store, current, artifacts, staples, pantry, run, last, ncmd, call

vars == <<store, current, artifacts, staples, pantry, run, last, ncmd, call>>

(***************************************************************************)
(* Bounds of the model.                                                    *)
(***************************************************************************)
MaxRecipes == 1
MaxExtra == 2
MaxCmds == 5
\* unrecognized answers in a row to one prompt of the pantry check
MaxTries == 1
\* raw lines in one call of process exercised on its own
MaxLines == 2
\* ingredients in one call of format_grocery_list exercised on its own
MaxItems == 3

(***************************************************************************)
(* Generic helpers on sequences.                                           *)
(***************************************************************************)
None == <<>>
Some(v) == <<v>>

Range(s) == {s[i] : i \in 1..Len(s)}

\* F of the value of v, with v evaluated once (a local variable of the code)
Bind(v, F(_)) == CHOOSE r \in {F(x) : x \in {v}} : TRUE

RECURSIVE Flatten(_)
Flatten(ss) == IF ss = <<>> THEN <<>> ELSE Head(ss) \o Flatten(Tail(ss))

RECURSIVE SelectIdx(_, _, _)
\* the indices i of 1..n, ascending from k, for which keep[i] holds
SelectIdx(keep, k, n) ==
    IF k > n THEN <<>>
    ELSE (IF keep[k] THEN <<k>> ELSE <<>>) \o SelectIdx(keep, k + 1, n)

\* list.pop(k - 1)
RemoveAt(s, k) == SubSeq(s, 1, k - 1) \o SubSeq(s, k + 1, Len(s))

\* list.remove(x): removes the first element equal to x
FirstIndexOf(s, x) == CHOOSE i \in 1..Len(s) : s[i] = x /\ \A j \in 1..(i - 1) : s[j] # x
RemoveFirst(s, x) == RemoveAt(s, FirstIndexOf(s, x))

(***************************************************************************)
(* str helpers.                                                            *)
(***************************************************************************)
Blank == " "
Newline == "\n"
Whitespace == {Blank, Newline}

RECURSIVE LStrip(_)
LStrip(s) == IF s # <<>> /\ Head(s) \in Whitespace THEN LStrip(Tail(s)) ELSE s

RECURSIVE RStrip(_)
RStrip(s) ==
    IF s # <<>> /\ s[Len(s)] \in Whitespace THEN RStrip(SubSeq(s, 1, Len(s) - 1)) ELSE s

RECURSIVE Join(_, _)
\* sep.join(parts)
Join(parts, sep) ==
    IF parts = <<>> THEN <<>>
    ELSE IF Len(parts) = 1 THEN parts[1]
    ELSE parts[1] \o <<sep>> \o Join(Tail(parts), sep)

\* str.lower(), character by character
UpperCase ==
    [c \in {"B", "S", "Y", "N", "E", "O"} |->
        CASE c = "B" -> "b" [] c = "S" -> "s" [] c = "Y" -> "y"
          [] c = "N" -> "n" [] c = "E" -> "e" [] c = "O" -> "o"]
LowerChar(c) == IF c \in DOMAIN UpperCase THEN UpperCase[c] ELSE c
\* str.lower(), had it been left out of the answer's normalisation
LowerLeftOut(s) == s

\* str.lower()
Lower(s) == [i \in 1..Len(s) |-> LowerChar(s[i])]

\* str.strip()
Strip(s) == RStrip(LStrip(s))

\* f"{quantity} {name}", had strip() been left out
ItemTextUntrimmed(name, quantity) == quantity \o <<Blank>> \o name

\* f"{quantity} {name}".strip()
ItemText(name, quantity) == Strip(quantity \o <<Blank>> \o name)

(***************************************************************************)
(* config.py: the enumerated store sections.                               *)
(***************************************************************************)
store_sections ==
    << "Produce", "Meat & Seafood", "Dairy & Eggs", "Bakery & Bread",
       "Pantry & Dry Goods", "Canned & Jarred Goods", "Frozen",
       "Spices & Seasonings", "Oils & Condiments", "Beverages", "Other" >>

(***************************************************************************)
(* models.py                                                               *)
(***************************************************************************)
RawIngredient(text, recipe_title, recipe_url) ==
    [text |-> text, recipe_title |-> recipe_title, recipe_url |-> recipe_url]

ProcessedIngredient(name, quantity, section, raw_sources, confirmed_have) ==
    [name |-> name, quantity |-> quantity, section |-> section,
     raw_sources |-> raw_sources, confirmed_have |-> confirmed_have]

RecipeData(title, url, raw_ingredients, scale) ==
    [title |-> title, url |-> url, raw_ingredients |-> raw_ingredients, scale |-> scale]

\* GrocerySession(id=..., name=...): every other field at its default
GrocerySession(id, name) ==
    [version |-> 1, id |-> id, name |-> name, recipes |-> <<>>, extra_items |-> <<>>,
     processed_ingredients |-> <<>>, finalized |-> FALSE, output_path |-> None]

ManualTitle == <<"[added manually]">>
StapleTitle == <<"[staple]">>

(***************************************************************************)
(* session.py: ids and the files of the base directory.                    *)
(***************************************************************************)
\* _now().strftime("%Y-%m-%d"): the model runs within one day
Today == "2026-11-05"

\* the characters \w matches, among those the model's names are made of
WordChars == {"b", "B", "s", "S", "e", "i", "o", "n", "_", "1"}

RECURSIVE KeepSlugChars(_)
\* re.sub(r"[^\w-]", "", s)
KeepSlugChars(s) ==
    IF s = <<>> THEN <<>>
    ELSE (IF Head(s) \in WordChars \cup {"-"} THEN <<Head(s)>> ELSE <<>>)
         \o KeepSlugChars(Tail(s))

\* re.sub(r"[^\w-]", "", name.replace(" ", "-")).lower()
Slug(name) ==
    Lower(KeepSlugChars([i \in 1..Len(name) |-> IF name[i] = Blank THEN "-" ELSE name[i]]))

\* _make_id(name); name is an Optional[str], and "if name" is false for None and ""
make_id(name) ==
    <<Today, "-">> \o (IF name # None /\ name[1] # <<>> THEN Slug(name[1])
                       ELSE <<"s", "e", "s", "s", "i", "o", "n">>)

\* manager.base_dir / f"{session.id}.txt"
OutputPath(id) == <<"~/.grocery_lists/">> \o id \o <<".txt">>

\* Path.write_text on <id>.json / <id>.txt: create or replace the whole file
WriteFile(files, id, content) ==
    [i \in DOMAIN files \cup {id} |-> IF i = id THEN content ELSE files[i]]

\* SessionManager.save
Save(files, session) == WriteFile(files, session.id, session)

\* SessionManager.load_current succeeds
HasCurrent == current # None /\ current[1] \in DOMAIN store
CurrentSession == store[current[1]]

(***************************************************************************)
(* processor.py: process().  The language model is an external             *)
(* collaborator; its answer is one of the kinds below.                     *)
(*   merged    one record per ingredient name, in order of first mention,  *)
(*             with every merged line in raw_sources                       *)
(*   preset    as merged, but the first item of the JSON array carries     *)
(*             "confirmed_have": true                                      *)
(*   dropped   as merged, but the last record is left out                  *)
(*   malformed prose without any JSON                                      *)
(*   partial   as merged, but the last item lacks "section"                *)
(*   numbers   an array of numbers                                         *)
(*   number    a JSON number and nothing else                              *)
(*   emptyobject  the JSON object {} and nothing else                      *)
(*   emptyarray   prose around the array []                                *)
(*   trailing  as merged, with prose after the array as well               *)
(*   remark    as trailing, and the prose after the array holds a remark   *)
(*             in square brackets                                          *)
(*   apierror  the API call itself raises (not a ProcessorError)           *)
(* The response text is a sequence of tokens [t, v]: t is "prose", "[",    *)
(* "]", "num" or "obj"; v is the JSON object of an "obj" token, given as   *)
(* the set of its keys (has) and their values.  Commas are left out.       *)
(***************************************************************************)
LlmKinds ==
    {"merged", "preset", "dropped", "malformed", "partial", "numbers", "number",
     "emptyobject", "emptyarray", "trailing", "remark", "apierror"}

LineName(text) == IF text = <<>> THEN <<>> ELSE <<text[Len(text)]>>
LineQuantity(text) ==
    LET q == IF text = <<>> THEN <<>> ELSE Strip(SubSeq(text, 1, Len(text) - 1))
    IN  IF q = <<>> THEN <<"as needed">> ELSE q

\* the section the model assigns; "Spices" is not one of store_sections
SectionOf(name) ==
    CASE name = <<"garlic">> -> "Spices"
      [] name = <<"egg">> -> "Dairy & Eggs"
      [] OTHER -> "Produce"

MergeLine(acc, ri) ==
    LET n == LineName(ri.text)
    IN  IF \E i \in 1..Len(acc) : acc[i].name = n
        THEN LET i == CHOOSE i \in 1..Len(acc) : acc[i].name = n
             IN  [acc EXCEPT ![i].raw_sources = Append(@, ri.text),
                             ![i].quantity = @ \o <<"+">> \o LineQuantity(ri.text)]
        ELSE Append(acc, ProcessedIngredient(n, LineQuantity(ri.text), SectionOf(n),
                                             <<ri.text>>, "None"))

RECURSIVE MergeAll(_, _)
MergeAll(acc, lines) ==
    IF lines = <<>> THEN acc ELSE MergeAll(MergeLine(acc, Head(lines)), Tail(lines))

\* the records the model's JSON array parses to
LlmAnswer(raw_ingredients, kind) ==
    LET m == MergeAll(<<>>, raw_ingredients)
    IN  CASE kind = "preset" /\ m # <<>> -> [m EXCEPT ![1].confirmed_have = "True"]
          [] kind = "dropped" /\ m # <<>> -> SubSeq(m, 1, Len(m) - 1)
          [] OTHER -> m

RequiredKeys == {"name", "quantity", "section", "raw_sources"}

Tok(t) == [t |-> t, v |-> <<>>]

\* the JSON object the model writes for one record
Obj(ing, keys) == [t |-> "obj", v |-> [has |-> keys, fields |-> ing]]

\* response.content[0].text
LlmResponse(raw_ingredients, kind) ==
    LET KeysOf(m, i) ==
            (IF kind = "partial" /\ i = Len(m) THEN RequiredKeys \ {"section"} ELSE RequiredKeys)
                \cup (IF m[i].confirmed_have # "None" THEN {"confirmed_have"} ELSE {})
        Array(m) ==
            <<Tok("[")>> \o [i \in 1..Len(m) |-> Obj(m[i], KeysOf(m, i))] \o <<Tok("]")>>
        array == Bind(LlmAnswer(raw_ingredients, kind), Array)
    IN  CASE kind = "malformed" -> <<Tok("prose"), Tok("prose")>>
          [] kind = "numbers" -> <<Tok("["), Tok("num"), Tok("num"), Tok("]")>>
          [] kind = "number" -> <<Tok("num")>>
          [] kind = "emptyobject" -> <<Obj(<<>>, {})>>
          [] kind = "emptyarray" -> <<Tok("prose"), Tok("["), Tok("]"), Tok("prose")>>
          [] kind = "trailing" -> <<Tok("prose")>> \o array \o <<Tok("prose")>>
          [] kind = "remark" ->
                 <<Tok("prose")>> \o array \o <<Tok("prose"), Tok("["), Tok("prose"), Tok("]")>>
          [] OTHER -> <<Tok("prose")>> \o array

\* _extract_json: re.search(r"\[.*\]", text, re.DOTALL), the span from the
\* first "[" that a "]" follows to the last "]"; the whole text if none
extract_json(text) ==
    LET opens == {i \in 1..Len(text) :
                     text[i].t = "[" /\ \E j \in (i + 1)..Len(text) : text[j].t = "]"}
    IN  IF opens = {} THEN text
        ELSE LET from == CHOOSE i \in opens : \A k \in opens : i <= k
                 to == CHOOSE j \in 1..Len(text) :
                           text[j].t = "]" /\ \A k \in (j + 1)..Len(text) : text[k].t # "]"
             IN  SubSeq(text, from, to)

\* json.loads: [ok, list, items].  One value token is that value; "[",
\* value tokens, "]" is the list of them; anything else does not parse.  (An
\* array nested in the span parses in Python, but as an item that is no
\* object: it ends in ProcessorError like a text that does not parse.)
json_loads(text) ==
    LET n == Len(text)
        IsValue(k) == text[k].t \in {"obj", "num"}
    IN  IF n = 1 /\ IsValue(1) THEN [ok |-> TRUE, list |-> FALSE, items |-> text]
        ELSE IF n >= 2 /\ text[1].t = "[" /\ text[n].t = "]"
                /\ \A k \in 2..(n - 1) : IsValue(k)
        THEN [ok |-> TRUE, list |-> TRUE, items |-> SubSeq(text, 2, n - 1)]
        ELSE [ok |-> FALSE, list |-> FALSE, items |-> <<>>]

\* ProcessedIngredient(**item) succeeds: item is an object with every
\* required key (confirmed_have is optional)
Validates(item) == item.t = "obj" /\ RequiredKeys \subseteq item.v.has

\* ProcessedIngredient(**item)
FromItem(item) ==
    ProcessedIngredient(item.v.fields.name, item.v.fields.quantity, item.v.fields.section,
                        item.v.fields.raw_sources,
                        IF "confirmed_have" \in item.v.has THEN item.v.fields.confirmed_have
                        ELSE "None")

\* process, lines 48-51: [ProcessedIngredient(**item) for item in data].
\* Iterating a dict yields its keys (none for {}), a number cannot be iterated.
FromData(data) ==
    IF data.list
    THEN IF \A k \in 1..Len(data.items) : Validates(data.items[k])
         THEN [raised |-> "", value |-> [k \in 1..Len(data.items) |-> FromItem(data.items[k])]]
         ELSE [raised |-> "ProcessorError", value |-> <<>>]
    ELSE IF data.items[1].t = "obj" /\ data.items[1].v.has = {}
         THEN [raised |-> "", value |-> <<>>]
         ELSE [raised |-> "ProcessorError", value |-> <<>>]

\* process(raw_ingredients, config): [raised |-> "" | "ProcessorError" | "APIError", value]
process(raw_ingredients, kind) ==
    IF kind = "apierror" THEN [raised |-> "APIError", value |-> <<>>]
    ELSE LET Loaded(data) ==
                 IF ~data.ok THEN [raised |-> "ProcessorError", value |-> <<>>]
                 ELSE FromData(data)
             Extracted(span) == Bind(json_loads(span), Loaded)
             Answered(raw_text) == Bind(extract_json(raw_text), Extracted)
         IN  Bind(LlmResponse(raw_ingredients, kind), Answered)

(***************************************************************************)
(* cli.py: _process_all                                                    *)
(***************************************************************************)
\* the scale marker of a recipe line, "[" + MULTIPLICATION SIGN + str(r.scale) + "]"
\* (scale is a float, so 2 prints as 2.0); the sign is written x here
ScaleMarker(scale) == [k \in {2, 3} |-> IF k = 2 THEN "[x2.0]" ELSE "[x3.0]"][scale]

\* the lines of a recipe as sent, had the scale marker been left out
RecipeRawUnmarked(r) ==
    [j \in 1..Len(r.raw_ingredients) |-> RawIngredient(r.raw_ingredients[j], r.title, r.url)]

\* _process_all, lines 165-173: the lines of one recipe as sent
RecipeRaw(r) ==
    [j \in 1..Len(r.raw_ingredients) |->
        RawIngredient(IF r.scale # 1 THEN <<ScaleMarker(r.scale), Blank>> \o r.raw_ingredients[j]
                      ELSE r.raw_ingredients[j],
                      r.title, r.url)]

AllRaw(session) ==
    Flatten([i \in 1..Len(session.recipes) |-> RecipeRaw(session.recipes[i])])
        \o session.extra_items

\* _process_all, had it kept the confirmations of the list it replaces: an
\* ingredient of the new list takes the confirmed_have of the old ingredient
\* of the same name
process_all_keeping(files, session, kind) ==
    LET all_raw == AllRaw(session)
        r == process(all_raw, kind)
        old == session.processed_ingredients
        Kept(ing) ==
            IF \E j \in 1..Len(old) : old[j].name = ing.name
            THEN [ing EXCEPT !.confirmed_have =
                     old[CHOOSE j \in 1..Len(old) : old[j].name = ing.name].confirmed_have]
            ELSE ing
    IN  [raised |-> r.raised,
         files |-> IF r.raised = ""
                   THEN Save(files, [session EXCEPT !.processed_ingredients =
                                        [i \in 1..Len(r.value) |-> Kept(r.value[i])]])
                   ELSE files,
         sent |-> <<all_raw>>]

\* _process_all(session, manager, config) on the session files `files`:
\* what it raised, the files afterwards, and the list sent to the model
process_all(files, session, kind) ==
    LET all_raw == AllRaw(session)
        r == process(all_raw, kind)
    IN  [raised |-> r.raised,
         files |-> IF r.raised = ""
                   THEN Save(files, [session EXCEPT !.processed_ingredients = r.value])
                   ELSE files,
         sent |-> <<all_raw>>]

(***************************************************************************)
(* The state of the command in progress.  `last` records the command that  *)
(* ran last, how it ended and the lists it sent to the language model.     *)
(* `run` is the position of a `grocery done` under way, with its local     *)
(* variables: the session it loaded, pantry_names, to_check (as positions  *)
(* in processed_ingredients) and the position in to_check; start (the      *)
(* confirmed_have values it loaded), asked (the positions prompted for)    *)
(* and tries (the unrecognized answers given to the prompt now open)       *)
(* record what it did.                                                     *)
(***************************************************************************)
\* no pure function is being exercised on its own
NoCall == [fn |-> ""]

Last(cmd, outcome, sent) == [cmd |-> cmd, outcome |-> outcome, sent |-> sent]

RunIdle ==
    [pc |-> "idle", session |-> None, pantry_names |-> {}, to_check |-> <<>>, pos |-> 0,
     start |-> <<>>, asked |-> {}, offered |-> <<>>, tries |-> 0]

\* done is under way: the one user starts no other command meanwhile
Busy == run.pc # "idle"

\* the user starts one more command
Start == ~Busy /\ ncmd < MaxCmds /\ ncmd' = ncmd + 1 /\ UNCHANGED call

\* a command that ends without writing anything (an error exit, an early return)
Exit(cmd, outcome) ==
    /\ last' = Last(cmd, outcome, <<>>)
    /\ run' = RunIdle
    /\ UNCHANGED <<store, current, artifacts, staples, pantry>>

Init ==
    /\ store = <<>>
    /\ current = None
    /\ artifacts = <<>>
    /\ staples = <<>>
    /\ pantry = <<>>
    /\ run = RunIdle
    /\ last = Last("", "", <<>>)
    /\ ncmd = 0
    /\ call = NoCall

(***************************************************************************)
(* staples.py / pantry.py: the two named lists.                            *)
(***************************************************************************)
NamedItem(name, quantity) == [name |-> name, quantity |-> quantity]

\* add, had it given an entry that is already there the new quantity
ListAddReplacing(items, name, quantity) ==
    IF \E i \in 1..Len(items) : items[i].name = name
    THEN [i \in 1..Len(items) |->
             IF items[i].name = name THEN NamedItem(name, quantity) ELSE items[i]]
    ELSE Append(items, NamedItem(name, quantity))

\* add, had the test for the name been left out
ListAddAlways(items, name, quantity) == Append(items, NamedItem(name, quantity))

\* StapleManager.add / PantryManager.add
ListAdd(items, name, quantity) ==
    IF \E i \in 1..Len(items) : items[i].name = name THEN items
    ELSE Append(items, NamedItem(name, quantity))

\* StapleManager.remove / PantryManager.remove
ListRemove(items, name) == SelectSeq(items, LAMBDA p : p.name # name)

\* PantryManager.names
Names(items) == {items[i].name : i \in 1..Len(items)}

StapleAdd(name, quantity) ==
    /\ Start
    /\ staples' = ListAdd(staples, name, quantity)
    /\ last' = Last("staple add", "ok", <<>>)
    /\ run' = RunIdle
    /\ UNCHANGED <<store, current, artifacts, pantry>>

StapleRemove(name) ==
    /\ Start
    /\ staples' = ListRemove(staples, name)
    /\ last' = Last("staple remove", "ok", <<>>)
    /\ run' = RunIdle
    /\ UNCHANGED <<store, current, artifacts, pantry>>

PantryAdd(name, quantity) ==
    /\ Start
    /\ pantry' = ListAdd(pantry, name, quantity)
    /\ last' = Last("pantry add", "ok", <<>>)
    /\ run' = RunIdle
    /\ UNCHANGED <<store, current, artifacts, staples>>

PantryRemove(name) ==
    /\ Start
    /\ pantry' = ListRemove(pantry, name)
    /\ last' = Last("pantry remove", "ok", <<>>)
    /\ run' = RunIdle
    /\ UNCHANGED <<store, current, artifacts, staples>>

(***************************************************************************)
(* grocery new / grocery open                                              *)
(***************************************************************************)
\* SessionManager.new, had it not seeded the staples
NewSessionUnseeded(name) == GrocerySession(make_id(name), name)

\* SessionManager.new: the session seeded with the staples
NewSession(name) ==
    [GrocerySession(make_id(name), name) EXCEPT
        !.extra_items = [i \in 1..Len(staples) |->
                            RawIngredient(ItemText(staples[i].name, staples[i].quantity),
                                          StapleTitle, <<>>)]]

\* new, had it not written the pointer
NewKeepingPointer(name) ==
    /\ Start
    /\ store' = Save(store, NewSession(name))
    /\ last' = Last("new", "ok", <<>>)
    /\ run' = RunIdle
    /\ UNCHANGED <<current, artifacts, staples, pantry>>

New(name) ==
    /\ Start
    /\ store' = Save(store, NewSession(name))
    /\ current' = Some(make_id(name))
    /\ last' = Last("new", "ok", <<>>)
    /\ run' = RunIdle
    /\ UNCHANGED <<artifacts, staples, pantry>>

\* open, had it written the pointer before loading the session
OpenSessionPointerFirst(session_id) ==
    /\ Start
    /\ current' = Some(session_id)
    /\ run' = RunIdle
    /\ IF session_id \notin DOMAIN store
       THEN /\ last' = Last("open", "FileNotFoundError", <<>>)
            /\ UNCHANGED <<store, artifacts, staples, pantry>>
       ELSE /\ store' = Save(store, [store[session_id] EXCEPT !.finalized = FALSE])
            /\ last' = Last("open", IF store[session_id].finalized THEN "reopened" ELSE "ok",
                            <<>>)
            /\ UNCHANGED <<artifacts, staples, pantry>>

\* cli.open_session with a session id given; SessionManager.open_session.
\* The outcome records whether the session opened was a finalized one.
OpenSession(session_id) ==
    /\ Start
    /\ IF session_id \notin DOMAIN store
       THEN Exit("open", "FileNotFoundError")
       ELSE /\ store' = Save(store, [store[session_id] EXCEPT !.finalized = FALSE])
            /\ current' = Some(session_id)
            /\ last' = Last("open", IF store[session_id].finalized THEN "reopened" ELSE "ok",
                            <<>>)
            /\ run' = RunIdle
            /\ UNCHANGED <<artifacts, staples, pantry>>

\* cli.list_sessions: reads every session file and prints a table; writes nothing
ListSessions ==
    /\ Start
    /\ Exit("list", "ok")

(***************************************************************************)
(* grocery recipe add / recipe remove                                      *)
(***************************************************************************)
\* what fetch(url) followed by scrape(html, url) yields for one URL: an error
\* class, or the title of the recipe page
Pages == {"Soup"}
FetchOutcomes == {"FetchError", "ScrapeError"} \cup Pages

\* scrape(html, url) of a recipe page
Scrape(page) ==
    RecipeData(<<page>>, <<"https://", page>>,
               << <<"2", Blank, "garlic">>, <<"egg">> >>, 1)

RECURSIVE ScrapedUntilError(_, _)
\* the recipes the URL loop appends, had a FetchError or ScrapeError ended it
ScrapedUntilError(attempts, scale) ==
    IF attempts = <<>> \/ Head(attempts) \notin Pages THEN <<>>
    ELSE <<[Scrape(Head(attempts)) EXCEPT !.scale = scale]>>
         \o ScrapedUntilError(Tail(attempts), scale)

RECURSIVE Scraped(_, _)
\* the recipes the URL loop appends: one per URL fetched and scraped, in order
Scraped(attempts, scale) ==
    IF attempts = <<>> THEN <<>>
    ELSE (IF Head(attempts) \in Pages
          THEN <<[Scrape(Head(attempts)) EXCEPT !.scale = scale]>> ELSE <<>>)
         \o Scraped(Tail(attempts), scale)

\* the tail of recipe_add, recipe_remove, item_add and item_remove:
\*   try: _process_all(...)  except ProcessorError: manager.save(session)
\* any other exception ends the command with nothing more written
ProcessOrSave(cmd, session, kind) ==
    LET p == process_all(store, session, kind)
    IN  /\ store' = IF p.raised = "ProcessorError" THEN Save(store, session) ELSE p.files
        /\ last' = Last(cmd, IF p.raised = "" THEN "ok" ELSE p.raised, p.sent)
        /\ run' = RunIdle
        /\ UNCHANGED <<current, artifacts, staples, pantry>>

\* recipe_add without --html: the URL loop
RecipeAdd(hasKey, attempts, scale, kind) ==
    /\ Start
    /\ IF ~HasCurrent THEN Exit("recipe add", "FileNotFoundError")
       ELSE IF ~hasKey THEN Exit("recipe add", "no api key")
       ELSE LET added == Scraped(attempts, scale)
                session == [CurrentSession EXCEPT !.recipes = @ \o added]
            IN  /\ Len(session.recipes) <= MaxRecipes
                /\ IF Len(added) = 0 THEN Exit("recipe add", "none added")
                   ELSE ProcessOrSave("recipe add", session, kind)

\* recipe_add --html SOURCE: _add_from_html.  source is "url" or "file"; an
\* unreadable file raises out of the command.
RecipeAddHtml(hasKey, source, outcome, scale, kind) ==
    /\ Start
    /\ IF ~HasCurrent THEN Exit("recipe add --html", "FileNotFoundError")
       ELSE IF ~hasKey THEN Exit("recipe add --html", "no api key")
       ELSE IF outcome = "FetchError"
       THEN Exit("recipe add --html", IF source = "url" THEN "FetchError" ELSE "OSError")
       ELSE IF outcome = "ScrapeError" THEN Exit("recipe add --html", "ScrapeError")
       ELSE LET session == [CurrentSession EXCEPT
                               !.recipes = Append(@, [Scrape(outcome) EXCEPT !.scale = scale])]
                p == process_all(store, session, kind)
            IN  /\ Len(session.recipes) <= MaxRecipes
                /\ store' = p.files
                /\ last' = Last("recipe add --html", IF p.raised = "" THEN "ok" ELSE p.raised,
                                p.sent)
                /\ run' = RunIdle
                /\ UNCHANGED <<current, artifacts, staples, pantry>>

\* the tail of recipe_remove and item_remove, had it not tested for an empty session
ReprocessAlways(cmd, session, hasKey, kind) ==
    IF ~hasKey THEN Exit(cmd, "no api key") ELSE ProcessOrSave(cmd, session, kind)

\* the tail of recipe_remove and item_remove, had the session been saved
\* before Config() is built
ReprocessSavedFirst(cmd, session, hasKey, kind) ==
    IF session.recipes # <<>> \/ session.extra_items # <<>>
    THEN IF ~hasKey
         THEN /\ store' = Save(store, session)
              /\ last' = Last(cmd, "no api key", <<>>)
              /\ run' = RunIdle
              /\ UNCHANGED <<current, artifacts, staples, pantry>>
         ELSE ProcessOrSave(cmd, session, kind)
    ELSE /\ store' = Save(store, [session EXCEPT !.processed_ingredients = <<>>])
         /\ last' = Last(cmd, "cleared", <<>>)
         /\ run' = RunIdle
         /\ UNCHANGED <<current, artifacts, staples, pantry>>

\* the tail of recipe_remove and item_remove
ReprocessOrClear(cmd, session, hasKey, kind) ==
    IF session.recipes # <<>> \/ session.extra_items # <<>>
    THEN IF ~hasKey THEN Exit(cmd, "no api key")
         ELSE ProcessOrSave(cmd, session, kind)
    ELSE /\ store' = Save(store, [session EXCEPT !.processed_ingredients = <<>>])
         /\ last' = Last(cmd, "cleared", <<>>)
         /\ run' = RunIdle
         /\ UNCHANGED <<current, artifacts, staples, pantry>>

RecipeRemove(index, hasKey, kind) ==
    /\ Start
    /\ IF ~HasCurrent THEN Exit("recipe remove", "FileNotFoundError")
       ELSE IF index < 1 \/ index > Len(CurrentSession.recipes)
       THEN Exit("recipe remove", "out of range")
       ELSE ReprocessOrClear("recipe remove",
                             [CurrentSession EXCEPT !.recipes = RemoveAt(@, index)],
                             hasKey, kind)

(***************************************************************************)
(* grocery item add / item remove                                          *)
(***************************************************************************)
\* item_add, had Config() been built only after the line was appended and saved
ItemAddKeyLate(name, quantity, hasKey, kind) ==
    /\ Start
    /\ IF ~HasCurrent THEN Exit("item add", "FileNotFoundError")
       ELSE LET session == [CurrentSession EXCEPT
                               !.extra_items = Append(@, RawIngredient(ItemText(name, quantity),
                                                                       ManualTitle, <<>>))]
            IN  /\ Len(CurrentSession.extra_items) < MaxExtra
                /\ IF hasKey THEN ProcessOrSave("item add", session, kind)
                   ELSE /\ store' = Save(store, session)
                        /\ last' = Last("item add", "no api key", <<>>)
                        /\ run' = RunIdle
                        /\ UNCHANGED <<current, artifacts, staples, pantry>>

\* item_add
ItemAdd(name, quantity, hasKey, kind) ==
    /\ Start
    /\ IF ~HasCurrent THEN Exit("item add", "FileNotFoundError")
       ELSE IF ~hasKey THEN Exit("item add", "no api key")
       ELSE /\ Len(CurrentSession.extra_items) < MaxExtra
            /\ ProcessOrSave("item add",
                   [CurrentSession EXCEPT
                       !.extra_items = Append(@, RawIngredient(ItemText(name, quantity),
                                                               ManualTitle, <<>>))],
                   kind)

\* the extra items numbered, had the staple lines been numbered with the rest
ManualItemsWithStaples(session) == session.extra_items

\* the extra items `item list` numbers
ManualItems(session) == SelectSeq(session.extra_items, LAMBDA it : it.recipe_title = ManualTitle)

ItemRemove(index, hasKey, kind) ==
    /\ Start
    /\ IF ~HasCurrent THEN Exit("item remove", "FileNotFoundError")
       ELSE IF index < 1 \/ index > Len(ManualItems(CurrentSession))
       THEN Exit("item remove", "out of range")
       ELSE ReprocessOrClear("item remove",
                [CurrentSession EXCEPT
                    !.extra_items = RemoveFirst(@, ManualItems(CurrentSession)[index])],
                hasKey, kind)

(***************************************************************************)
(* formatter.py                                                            *)
(***************************************************************************)
\* f"[ ] {ingredient.quantity} {ingredient.name}"
ItemLine(ingredient) == <<"[ ]", Blank>> \o ingredient.quantity \o <<Blank>> \o ingredient.name

\* the bucket an ingredient is put in
BucketOf(ingredient, sections) ==
    IF ingredient.section \in Range(sections) THEN ingredient.section ELSE "Other"

\* the lines of one section, had the test "section not in by_section" been left out
SectionLinesWithEmpty(section, ingredients, sections) ==
    LET bucket == SelectSeq(ingredients, LAMBDA i : BucketOf(i, sections) = section)
    IN  << <<Newline, section>>, <<"-*len", section>> >>
        \o [k \in 1..Len(bucket) |-> ItemLine(bucket[k])]

\* the lines appended for one section: "\n<section>", the rule, the items
SectionLines(section, ingredients, sections) ==
    LET bucket == SelectSeq(ingredients, LAMBDA i : BucketOf(i, sections) = section)
    IN  IF bucket = <<>> THEN <<>>
        ELSE << <<Newline, section>>, <<"-*len", section>> >>
             \o [k \in 1..Len(bucket) |-> ItemLine(bucket[k])]

\* format_grocery_list(ingredients, config) with config.store_sections = sections
format_grocery_list(ingredients, sections) ==
    Strip(Join(Flatten([k \in 1..Len(sections) |->
                           SectionLines(sections[k], ingredients, sections)]),
               Newline))

(***************************************************************************)
(* pantry.py: run_pantry_check, and grocery done (cli.py)                  *)
(***************************************************************************)
Confirmed(ingredients) == [i \in 1..Len(ingredients) |-> ingredients[i].confirmed_have]

\* the auto-mark, had it never marked anything
AutoMarkNothing(ingredients, pantry_names) == ingredients

\* the auto-mark, had it left out the test "confirmed_have is None"
AutoMarkOverriding(ingredients, pantry_names) ==
    [i \in 1..Len(ingredients) |->
        IF ingredients[i].name \in pantry_names
        THEN [ingredients[i] EXCEPT !.confirmed_have = "True"]
        ELSE ingredients[i]]

\* run_pantry_check, lines 41-44: auto-mark the pantry items
AutoMark(ingredients, pantry_names) ==
    [i \in 1..Len(ingredients) |->
        IF ingredients[i].confirmed_have = "None" /\ ingredients[i].name \in pantry_names
        THEN [ingredients[i] EXCEPT !.confirmed_have = "True"]
        ELSE ingredients[i]]

\* to_check, had it stopped at the first unknown ingredient
ToCheckFirstOnly(ingredients) ==
    LET all == SelectIdx([i \in 1..Len(ingredients) |->
                             ingredients[i].confirmed_have = "None"],
                         1, Len(ingredients))
    IN  IF all = <<>> THEN <<>> ELSE <<all[1]>>

\* run_pantry_check, line 46: to_check, as positions in the list
ToCheck(ingredients) ==
    SelectIdx([i \in 1..Len(ingredients) |-> ingredients[i].confirmed_have = "None"],
              1, Len(ingredients))

\* done, lines 428-431: newly_have, as positions in the list
NewlyHave(ingredients, pantry_names) ==
    SelectIdx([i \in 1..Len(ingredients) |->
                  ingredients[i].confirmed_have = "True"
                  /\ ingredients[i].name \notin pantry_names],
              1, Len(ingredients))

\* need_to_buy, had the test been inverted
NeedToBuyHad(ingredients) == SelectSeq(ingredients, LAMBDA i : i.confirmed_have = "True")

\* done, line 435
NeedToBuy(ingredients) == SelectSeq(ingredients, LAMBDA i : i.confirmed_have = "False")

\* finalize, had it not recorded the output path
FinalizedWithoutPath(session, output_path) == [session EXCEPT !.finalized = TRUE]

\* SessionManager.finalize, before the save
Finalized(session, output_path) ==
    [session EXCEPT !.finalized = TRUE, !.output_path = Some(output_path)]

\* done at a prompt or between two of its steps
Running(pc, session, r) ==
    /\ run' = [r EXCEPT !.pc = pc, !.session = Some(session)]
    /\ last' = Last("done", "running", <<>>)
    /\ UNCHANGED <<store, current, artifacts, staples, pantry>>

\* done, line 414, had the test been left out
NoIngredientsUnchecked(session) == FALSE

\* done, line 414: "if not session.processed_ingredients"
NoIngredients(session) == session.processed_ingredients = <<>>

\* done, lines 401-425 up to the first prompt of run_pantry_check, or to its
\* return when there is nothing to ask
DoneStart(hasKey) ==
    /\ Start
    /\ IF ~HasCurrent THEN Exit("done", "FileNotFoundError")
       ELSE IF ~hasKey THEN Exit("done", "no api key")
       ELSE IF NoIngredients(CurrentSession) THEN Exit("done", "no ingredients")
       ELSE LET pantry_names == Names(pantry)
                session == [CurrentSession EXCEPT
                               !.processed_ingredients = AutoMark(@, pantry_names)]
                to_check == ToCheck(session.processed_ingredients)
                r == [RunIdle EXCEPT !.pantry_names = pantry_names,
                                     !.to_check = to_check,
                                     !.start = Confirmed(CurrentSession.processed_ingredients)]
            IN  IF to_check = <<>> THEN Running("checked", session, r)
                ELSE Running("ask", session, [r EXCEPT !.pos = 1, !.asked = {to_check[1]}])

\* one answer to the prompt, had the break after a recognized answer been
\* left out: the value is set and the same prompt comes again
DoneAnswerWithoutBreak(answer) ==
    /\ run.pc = "ask"
    /\ UNCHANGED <<ncmd, call>>
    /\ LET a == Lower(Strip(answer))
           i == run.to_check[run.pos]
           session == run.session[1]
           Set(v) == [session EXCEPT !.processed_ingredients[i].confirmed_have = v]
       IN  IF a \in {<<"y">>, <<"y", "e", "s">>} THEN Running("ask", Set("True"), run)
           ELSE IF a \in {<<"n">>, <<"n", "o">>} THEN Running("ask", Set("False"), run)
           ELSE /\ run.tries < MaxTries
                /\ Running("ask", session, [run EXCEPT !.tries = @ + 1])

\* run_pantry_check, lines 54-65: one answer to the prompt for to_check[pos]
DoneAnswer(answer) ==
    /\ run.pc = "ask"
    /\ UNCHANGED <<ncmd, call>>
    /\ LET a == Lower(Strip(answer))
           i == run.to_check[run.pos]
           session == run.session[1]
           Set(v) == [session EXCEPT !.processed_ingredients[i].confirmed_have = v]
           Answered(s) ==
               IF run.pos < Len(run.to_check)
               THEN Running("ask", s, [run EXCEPT !.pos = @ + 1, !.tries = 0,
                                                  !.asked = @ \cup {run.to_check[run.pos + 1]}])
               ELSE Running("checked", s, [run EXCEPT !.tries = 0])
       IN  IF a \in {<<"y">>, <<"y", "e", "s">>} THEN Answered(Set("True"))
           ELSE IF a \in {<<"n">>, <<"n", "o">>} THEN Answered(Set("False"))
           ELSE /\ run.tries < MaxTries
                /\ Running("ask", session, [run EXCEPT !.tries = @ + 1])

\* done, lines 427-433: newly_have, and the "Add to pantry?" prompt if any
DoneNewlyHave ==
    /\ run.pc = "checked"
    /\ UNCHANGED <<ncmd, call>>
    /\ LET newly_have == NewlyHave(run.session[1].processed_ingredients, run.pantry_names)
       IN  IF newly_have # <<>>
           THEN Running("offer", run.session[1], [run EXCEPT !.offered = newly_have])
           ELSE Running("format", run.session[1], run)

\* int(part) for the parts of the answer that are digits (str.isdigit)
IntOf == [t \in {"0", "1", "2", "3", "9"} |->
             CASE t = "0" -> 0 [] t = "1" -> 1 [] t = "2" -> 2 [] t = "3" -> 3 [] t = "9" -> 9]

\* the indices the answer selects, had they been taken as 0-based
SelectedFromZero(raw, n) ==
    {IntOf[raw[k]] + 1 : k \in {j \in 1..Len(raw) : raw[j] \in DOMAIN IntOf}} \cap (1..n)

\* _prompt_pantry_additions, lines 386-391: the indices the answer selects
SelectedIndices(raw, n) ==
    {IntOf[raw[k]] : k \in {j \in 1..Len(raw) : raw[j] \in DOMAIN IntOf}} \cap (1..n)

RECURSIVE AddSelected(_, _, _, _)
\* _prompt_pantry_additions, lines 392-394: pantry_mgr.add(item.name) for each
\* selected index (a set of small ints is iterated in ascending order)
AddSelected(items, names, selected, k) ==
    IF k > Len(names) THEN items
    ELSE AddSelected(IF k \in selected THEN ListAdd(items, names[k], <<>>) ELSE items,
                     names, selected, k + 1)

\* _prompt_pantry_additions: the answer to the "Add to pantry?" prompt
DoneOffer(answer) ==
    /\ run.pc = "offer"
    /\ LET raw == Strip(answer)
           session == run.session[1]
           names == [k \in 1..Len(run.offered) |->
                        session.processed_ingredients[run.offered[k]].name]
       IN  /\ pantry' = IF raw = <<>> THEN pantry
                        ELSE AddSelected(pantry, names, SelectedIndices(raw, Len(names)), 1)
           /\ run' = [run EXCEPT !.pc = "format"]
           /\ last' = Last("done", "running", <<>>)
           /\ UNCHANGED <<store, current, artifacts, staples, ncmd, call>>

\* done, lines 435-444: format the items to buy, write the artifact, finalize
DoneFinish ==
    /\ run.pc = "format"
    /\ LET session == run.session[1]
           output == format_grocery_list(NeedToBuy(session.processed_ingredients),
                                         store_sections)
       IN  /\ artifacts' = WriteFile(artifacts, session.id, output)
           /\ store' = Save(store, Finalized(session, OutputPath(session.id)))
           /\ run' = RunIdle
           /\ last' = Last("done", "finalized", <<>>)
           /\ UNCHANGED <<current, staples, pantry, ncmd, call>>

\* the process is ended while done is under way (Ctrl-C at a prompt, a kill):
\* nothing is written
DoneAbort ==
    /\ Busy
    /\ last' = Last("done", "aborted", <<>>)
    /\ run' = RunIdle
    /\ UNCHANGED <<store, current, artifacts, staples, pantry, ncmd, call>>

(***************************************************************************)
(* The specification: every command, with its inputs drawn from small sets.*)
(***************************************************************************)
SessionNames == {None}
OpenIds == {make_id(None), make_id(Some(<<"B", "!">>))}
Scales == {1, 2}
ItemNames == {<<"egg">>}
Quantities == {<<>>}
StapleNames == {<<"egg">>}
PantryNames == {<<"egg">>}
Answers == {<<Blank, "Y", "E", "S">>, <<"y">>, <<"N", "o", Newline>>, <<"m">>}
OfferAnswers == {<<Blank>>, <<"1">>, <<"2", Blank, "x", Blank, "1", Blank, "1", Blank, "9">>}
UrlRuns == {<<>>, <<"FetchError", "ScrapeError">>, <<"ScrapeError", "Soup", "FetchError">>}
Kinds == {"merged", "preset", "malformed", "apierror"}

\* An input that the command does not get to read is fixed to one value: the
\* scale and the model's answer when no recipe is scraped or the credential is
\* missing, there is no current session or the index is out of range; the kind
\* of --html source when the page is fetched.
Reads(hasKey, scraped, scale, kind) ==
    (hasKey /\ scraped) \/ (scale = 1 /\ kind = "merged")

\* One session's commands.  grocery staple add / remove, whose only effect on
\* a session is the seeding done by grocery new, are taken in NextTrips.
Next ==
    \/ \E name \in SessionNames : New(name)
    \/ \E id \in OpenIds : OpenSession(id)
    \/ ListSessions
    \/ \E hasKey \in BOOLEAN, attempts \in UrlRuns, scale \in Scales, kind \in Kinds :
           /\ Reads(hasKey, HasCurrent /\ Scraped(attempts, scale) # <<>>, scale, kind)
           /\ RecipeAdd(hasKey, attempts, scale, kind)
    \/ \E hasKey \in BOOLEAN, source \in {"url", "file"}, outcome \in FetchOutcomes,
          scale \in Scales, kind \in Kinds :
           /\ Reads(hasKey, HasCurrent /\ outcome \in Pages, scale, kind)
           /\ (hasKey /\ outcome = "FetchError") \/ source = "url"
           /\ RecipeAddHtml(hasKey, source, outcome, scale, kind)
    \/ \E index \in 0..(MaxRecipes + 1), hasKey \in BOOLEAN, kind \in Kinds :
           /\ Reads(hasKey, HasCurrent /\ index \in 1..Len(CurrentSession.recipes), 1, kind)
           /\ RecipeRemove(index, hasKey, kind)
    \/ \E name \in ItemNames, quantity \in Quantities, hasKey \in BOOLEAN, kind \in Kinds :
           /\ Reads(hasKey, HasCurrent, 1, kind)
           /\ ItemAdd(name, quantity, hasKey, kind)
    \/ \E index \in 0..(MaxExtra + 1), hasKey \in BOOLEAN, kind \in Kinds :
           /\ Reads(hasKey, HasCurrent /\ index \in 1..Len(ManualItems(CurrentSession)), 1, kind)
           /\ ItemRemove(index, hasKey, kind)
    \/ \E name \in PantryNames : PantryAdd(name, <<>>)
    \/ \E name \in PantryNames : PantryRemove(name)
    \/ \E hasKey \in BOOLEAN : DoneStart(hasKey)
    \/ \E answer \in Answers : DoneAnswer(answer)
    \/ DoneNewlyHave
    \/ \E answer \in OfferAnswers : DoneOffer(answer)
    \/ DoneFinish
    \/ DoneAbort

Spec == Init /\ [][Next]_vars

(***************************************************************************)
(* The sessions of several shopping trips: two session names, staples with *)
(* quantities, and a start either from the empty directory or from the     *)
(* directory one finished trip leaves behind (grocery new; grocery item    *)
(* add egg; grocery done, answered "n").                                   *)
(***************************************************************************)
TripSession ==
    LET s0 == GrocerySession(make_id(None), None)
        s1 == [s0 EXCEPT !.extra_items =
                   <<RawIngredient(ItemText(<<"egg">>, <<>>), ManualTitle, <<>>)>>]
        s2 == [s1 EXCEPT !.processed_ingredients = process(AllRaw(s1), "merged").value]
        s3 == [s2 EXCEPT !.processed_ingredients[1].confirmed_have = "False"]
    IN  Finalized(s3, OutputPath(s3.id))

InitAfterTrip ==
    /\ store = Save(<<>>, TripSession)
    /\ current = Some(TripSession.id)
    /\ artifacts = WriteFile(<<>>, TripSession.id,
                             format_grocery_list(NeedToBuy(TripSession.processed_ingredients),
                                                 store_sections))
    /\ staples = <<>>
    /\ pantry = <<>>
    /\ run = RunIdle
    /\ last = Last("done", "finalized", <<>>)
    /\ ncmd = 0
    /\ call = NoCall

InitTrips == Init \/ InitAfterTrip

TripNames == {None, Some(<<"B", "!">>)}
TripIds == OpenIds \cup {<<Today, "-", "o", "n", "e">>}
TripStaples == {<<"egg">>, <<"salt">>}
TripQuantities == {<<>>, <<"2">>}

NextTrips ==
    \/ \E name \in TripNames : New(name)
    \/ \E id \in TripIds : OpenSession(id)
    \/ \E name \in TripStaples, quantity \in TripQuantities : StapleAdd(name, quantity)
    \/ \E name \in StapleNames : StapleRemove(name)
    \/ \E name \in ItemNames, quantity \in TripQuantities :
           ItemAdd(name, quantity, TRUE, "merged")
    \/ DoneStart(TRUE)
    \/ \E answer \in Answers : DoneAnswer(answer)
    \/ DoneNewlyHave
    \/ \E answer \in OfferAnswers : DoneOffer(answer)
    \/ DoneFinish

SpecTrips == InitTrips /\ [][NextTrips]_vars

(***************************************************************************)
(* recipe add and the remove commands on a session that holds several      *)
(* recipes and extra items: the directory after grocery new (with or       *)
(* without staples), recipe add and item add, with two commands left.      *)
(***************************************************************************)
EditRecipes ==
    UNION {[1..n -> {[Scrape("Soup") EXCEPT !.scale = scale] : scale \in Scales}] :
              n \in 0..(MaxRecipes + 1)}

\* staple lines (seeded by new) come before the lines added by item add
EditExtras ==
    LET lines == {RawIngredient(<<"egg">>, StapleTitle, <<>>),
                  RawIngredient(<<"egg">>, ManualTitle, <<>>),
                  RawIngredient(<<"2", Blank, "egg">>, ManualTitle, <<>>)}
    IN  {x \in UNION {[1..n -> lines] : n \in 0..(MaxExtra + 1)} :
            \A i, j \in 1..Len(x) :
                (i < j /\ x[j].recipe_title = StapleTitle) => x[i].recipe_title = StapleTitle}

EditSessions ==
    {LET s == [GrocerySession(make_id(None), None) EXCEPT !.recipes = recipes,
                                                          !.extra_items = extra]
     IN  IF AllRaw(s) = <<>> THEN s
         ELSE [s EXCEPT !.processed_ingredients = process(AllRaw(s), "merged").value] :
        recipes \in EditRecipes, extra \in EditExtras}

InitEdit ==
    /\ \E session \in EditSessions :
           /\ store = Save(<<>>, session)
           /\ current = Some(session.id)
    /\ artifacts = <<>>
    /\ staples = <<>>
    /\ pantry = <<>>
    /\ run = RunIdle
    /\ last = Last("", "", <<>>)
    /\ ncmd = MaxCmds - 2
    /\ call = NoCall

EditKinds == {"merged", "malformed"}

NextEdit ==
    \/ \E hasKey \in BOOLEAN, attempts \in UrlRuns, scale \in Scales, kind \in EditKinds :
           RecipeAdd(hasKey, attempts, scale, kind)
    \/ \E index \in 0..(MaxRecipes + 2), hasKey \in BOOLEAN, kind \in EditKinds :
           RecipeRemove(index, hasKey, kind)
    \/ \E index \in 0..(MaxExtra + 1), hasKey \in BOOLEAN, kind \in EditKinds :
           ItemRemove(index, hasKey, kind)

SpecEdit == InitEdit /\ [][NextEdit]_vars

(***************************************************************************)
(* grocery done on its own, on a session that holds ingredients, with the  *)
(* Pantry empty or holding egg.  The user answers each prompt of the       *)
(* pantry check, sooner or later, with an answer that is recognized.       *)
(***************************************************************************)
InitAsk ==
    /\ \E session \in {s \in EditSessions : s.processed_ingredients # <<>>} :
           /\ store = Save(<<>>, session)
           /\ current = Some(session.id)
    /\ artifacts = <<>>
    /\ staples = <<>>
    /\ pantry \in {<<>>, <<NamedItem(<<"egg">>, <<>>)>>}
    /\ run = RunIdle
    /\ last = Last("", "", <<>>)
    /\ ncmd = MaxCmds - 1
    /\ call = NoCall

\* the answers run_pantry_check takes for yes or no
RecognizedAnswers ==
    {answer \in Answers :
        Lower(Strip(answer)) \in {<<"y">>, <<"y", "e", "s">>, <<"n">>, <<"n", "o">>}}

NextAsk ==
    \/ DoneStart(TRUE)
    \/ \E answer \in Answers : DoneAnswer(answer)
    \/ DoneNewlyHave
    \/ \E answer \in OfferAnswers : DoneOffer(answer)
    \/ DoneFinish
    \/ DoneAbort

SpecAsk ==
    /\ InitAsk /\ [][NextAsk]_vars
    /\ WF_vars(\E answer \in RecognizedAnswers : DoneAnswer(answer))

(***************************************************************************)
(* The staple and pantry commands on their own, from the empty directory,  *)
(* with two names and two quantities.                                      *)
(***************************************************************************)
NextLists ==
    \/ \E name \in TripStaples, quantity \in TripQuantities : StapleAdd(name, quantity)
    \/ \E name \in TripStaples : StapleRemove(name)
    \/ \E name \in TripStaples, quantity \in TripQuantities : PantryAdd(name, quantity)
    \/ \E name \in TripStaples : PantryRemove(name)

SpecLists == Init /\ [][NextLists]_vars

(***************************************************************************)
(* process exercised on its own: _process_all on a session of one to       *)
(* MaxLines extra items, with or without a list stored from before, for    *)
(* every kind of response.                                                 *)
(***************************************************************************)
ProcessLines ==
    {RawIngredient(<<"2", Blank, "garlic">>, <<"Soup">>, <<"https://", "Soup">>),
     RawIngredient(<<"egg">>, <<"Soup">>, <<"https://", "Soup">>),
     RawIngredient(<<"egg">>, ManualTitle, <<>>)}

OldLists ==
    {<<>>, <<ProcessedIngredient(<<"salt">>, <<"1">>, "Produce", << <<"salt">> >>, "True")>>}

ProcessSessions ==
    {[GrocerySession(make_id(None), None) EXCEPT !.extra_items = raw,
                                                 !.processed_ingredients = old] :
        raw \in UNION {[1..n -> ProcessLines] : n \in 1..MaxLines}, old \in OldLists}

InitProcess ==
    /\ store = <<>>
    /\ current = None
    /\ artifacts = <<>>
    /\ staples = <<>>
    /\ pantry = <<>>
    /\ run = RunIdle
    /\ last = Last("", "", <<>>)
    /\ ncmd = 0
    /\ \E session \in ProcessSessions, kind \in LlmKinds :
           call = [fn |-> "process", session |-> session, kind |-> kind,
                   files |-> Save(<<>>, session), done |-> FALSE, out |-> <<>>]

ProcessCall ==
    /\ call.fn = "process" /\ ~call.done
    /\ call' = [call EXCEPT !.done = TRUE,
                            !.out = process_all(call.files, call.session, call.kind)]
    /\ UNCHANGED <<store, current, artifacts, staples, pantry, run, last, ncmd>>

SpecProcess == InitProcess /\ [][ProcessCall]_vars

(***************************************************************************)
(* format_grocery_list exercised on its own: up to MaxItems ingredients    *)
(* and a store_sections list as the configuration may hold it (the default *)
(* list, or one set through the environment).                              *)
(***************************************************************************)
FormatIngredients ==
    {ProcessedIngredient(<<"kale">>, <<"1">>, "Produce", << <<"kale">> >>, "False"),
     ProcessedIngredient(<<"egg">>, <<"2">>, "Dairy & Eggs", << <<"egg">> >>, "False"),
     ProcessedIngredient(<<"garlic">>, <<"2">>, "Spices", << <<"garlic">> >>, "False"),
     ProcessedIngredient(<<"foil">>, <<"1">>, "Other", << <<"foil">> >>, "False")}

SectionLists ==
    {store_sections,
     <<"Produce", "Dairy & Eggs">>,
     <<"Other", "Dairy & Eggs", "Produce">>}

InitFormat ==
    /\ store = <<>>
    /\ current = None
    /\ artifacts = <<>>
    /\ staples = <<>>
    /\ pantry = <<>>
    /\ run = RunIdle
    /\ last = Last("", "", <<>>)
    /\ ncmd = 0
    /\ \E ingredients \in UNION {[1..n -> FormatIngredients] : n \in 0..MaxItems},
          sections \in SectionLists :
           call = [fn |-> "format", ingredients |-> ingredients, sections |-> sections,
                   done |-> FALSE, out |-> <<>>]

FormatCall ==
    /\ call.fn = "format" /\ ~call.done
    /\ call' = [call EXCEPT !.done = TRUE,
                            !.out = format_grocery_list(call.ingredients, call.sections)]
    /\ UNCHANGED <<store, current, artifacts, staples, pantry, run, last, ncmd>>

SpecFormat == InitFormat /\ [][FormatCall]_vars

(***************************************************************************)
(* session.py: the files of base_dir, with save, load and list_sessions    *)
(* exercised on their own.  A file holds JSON text, taken here as the JSON *)
(* value it denotes, [t, v] with t the kind of the value, or text that is  *)
(* no JSON at all.  An object's v is the function from its keys to their   *)
(* values.                                                                 *)
(***************************************************************************)
JNull == [t |-> "null"]
JBool(b) == [t |-> "bool", v |-> b]
JNum(n) == [t |-> "num", v |-> n]
JStr(s) == [t |-> "str", v |-> s]
JArr(items) == [t |-> "arr", v |-> items]
JObj(fields) == [t |-> "obj", v |-> fields]
NotJson == [t |-> "text"]

\* float("inf"): click's float type is float(), which reads "inf"
Infinity == 1000

\* _now() as the JSON text of a datetime
Now == <<Today, "T00:00:00Z">>

\* a float in JSON text: pydantic writes inf and nan as null (ser_json_inf_nan)
dump_float(x) == IF x = Infinity THEN JNull ELSE JNum(x)

\* an Optional[str] in JSON text
dump_optional(o) == IF o = None THEN JNull ELSE JStr(o[1])

dump_strings(lines) == JArr([i \in 1..Len(lines) |-> JStr(lines[i])])

\* RawIngredient in JSON text
dump_raw(r) ==
    JObj([text |-> JStr(r.text), recipe_title |-> JStr(r.recipe_title),
          recipe_url |-> JStr(r.recipe_url)])

\* ProcessedIngredient in JSON text
dump_processed(p) ==
    JObj([name |-> JStr(p.name), quantity |-> JStr(p.quantity), section |-> JStr(p.section),
          raw_sources |-> dump_strings(p.raw_sources),
          confirmed_have |-> IF p.confirmed_have = "None" THEN JNull
                             ELSE JBool(p.confirmed_have = "True")])

\* RecipeData in JSON text
dump_recipe(r) ==
    JObj([title |-> JStr(r.title), url |-> JStr(r.url),
          raw_ingredients |-> dump_strings(r.raw_ingredients),
          scale |-> dump_float(r.scale)])

\* GrocerySession.model_dump_json, after save() has set updated_at
model_dump_json(session) ==
    JObj([version |-> JNum(session.version),
          id |-> JStr(session.id),
          name |-> dump_optional(session.name),
          created_at |-> JStr(Now),
          updated_at |-> JStr(Now),
          recipes |-> JArr([i \in 1..Len(session.recipes) |-> dump_recipe(session.recipes[i])]),
          extra_items |->
              JArr([i \in 1..Len(session.extra_items) |-> dump_raw(session.extra_items[i])]),
          processed_ingredients |->
              JArr([i \in 1..Len(session.processed_ingredients) |->
                       dump_processed(session.processed_ingredients[i])]),
          finalized |-> JBool(session.finalized),
          output_path |-> dump_optional(session.output_path)])

\* the JSON value j is an object that has every key of required, and each key
\* of types it has holds a value of one of the kinds types allows for it
Fits(j, required, types) ==
    /\ j.t = "obj"
    /\ required \subseteq DOMAIN j.v
    /\ \A k \in DOMAIN types : k \in DOMAIN j.v => j.v[k].t \in types[k]

IsStrings(j) == j.t = "arr" /\ \A i \in 1..Len(j.v) : j.v[i].t = "str"

\* the value of key k of the object j, or the field's default
Field(j, k, default) == IF k \in DOMAIN j.v THEN j.v[k].v ELSE default

\* an Optional[str] field
OptionalField(j, k) ==
    IF k \in DOMAIN j.v /\ j.v[k].t = "str" THEN Some(j.v[k].v) ELSE None

Strings(j) == [i \in 1..Len(j.v) |-> j.v[i].v]

\* RawIngredient validates
valid_raw(j) ==
    Fits(j, {"text", "recipe_title", "recipe_url"},
         [text |-> {"str"}, recipe_title |-> {"str"}, recipe_url |-> {"str"}])
load_raw(j) == RawIngredient(j.v.text.v, j.v.recipe_title.v, j.v.recipe_url.v)

\* ProcessedIngredient validates; confirmed_have: Optional[bool] = None
valid_processed(j) ==
    /\ Fits(j, {"name", "quantity", "section", "raw_sources"},
            [name |-> {"str"}, quantity |-> {"str"}, section |-> {"str"},
             raw_sources |-> {"arr"}, confirmed_have |-> {"null", "bool"}])
    /\ IsStrings(j.v.raw_sources)
load_processed(j) ==
    ProcessedIngredient(j.v.name.v, j.v.quantity.v, j.v.section.v, Strings(j.v.raw_sources),
        IF "confirmed_have" \notin DOMAIN j.v \/ j.v.confirmed_have.t = "null" THEN "None"
        ELSE IF j.v.confirmed_have.v THEN "True" ELSE "False")

\* RecipeData validates; scale: float = 1.0
valid_recipe(j) ==
    /\ Fits(j, {"title", "url", "raw_ingredients"},
            [title |-> {"str"}, url |-> {"str"}, raw_ingredients |-> {"arr"},
             scale |-> {"num"}])
    /\ IsStrings(j.v.raw_ingredients)
load_recipe(j) ==
    RecipeData(j.v.title.v, j.v.url.v, Strings(j.v.raw_ingredients), Field(j, "scale", 1))

\* the list field k of the object j, absent or with every element valid
ValidList(j, k, Valid(_)) ==
    k \in DOMAIN j.v => \A i \in 1..Len(j.v[k].v) : Valid(j.v[k].v[i])
LoadList(j, k, Load(_)) ==
    IF k \in DOMAIN j.v THEN [i \in 1..Len(j.v[k].v) |-> Load(j.v[k].v[i])] ELSE <<>>

\* GrocerySession validates: id, created_at and updated_at are required
valid_session(j) ==
    /\ Fits(j, {"id", "created_at", "updated_at"},
            [version |-> {"num"}, id |-> {"str"}, name |-> {"null", "str"},
             created_at |-> {"str"}, updated_at |-> {"str"}, recipes |-> {"arr"},
             extra_items |-> {"arr"}, processed_ingredients |-> {"arr"},
             finalized |-> {"bool"}, output_path |-> {"null", "str"}])
    /\ ValidList(j, "recipes", valid_recipe)
    /\ ValidList(j, "extra_items", valid_raw)
    /\ ValidList(j, "processed_ingredients", valid_processed)
load_session(j) ==
    [version |-> Field(j, "version", 1),
     id |-> j.v.id.v,
     name |-> OptionalField(j, "name"),
     recipes |-> LoadList(j, "recipes", load_recipe),
     extra_items |-> LoadList(j, "extra_items", load_raw),
     processed_ingredients |-> LoadList(j, "processed_ingredients", load_processed),
     finalized |-> Field(j, "finalized", FALSE),
     output_path |-> OptionalField(j, "output_path")]

\* GrocerySession.model_validate_json(text): the session, or ValidationError
model_validate_json(text) ==
    IF valid_session(text) THEN [ok |-> TRUE, error |-> "", value |-> Some(load_session(text))]
    ELSE [ok |-> FALSE, error |-> "ValidationError", value |-> None]

\* SessionManager._session_path(session_id).name
session_path(session_id) == session_id \o <<".json">>
PointerFile == <<"current", ".json">>
StaplesFile == <<"staples", ".json">>
PantryFile == <<"pantry", ".json">>
NotesFile == <<"notes", ".json">>

\* SessionManager.save on the files of base_dir
save(files, session) == WriteFile(files, session_path(session.id), model_dump_json(session))

\* SessionManager.load
load(files, session_id) ==
    IF session_path(session_id) \notin DOMAIN files
    THEN [ok |-> FALSE, error |-> "FileNotFoundError", value |-> None]
    ELSE model_validate_json(files[session_path(session_id)])

\* the file names of the model, as sorted() orders them
NameOrder ==
    << session_path(make_id(Some(<<"B", "!">>))), session_path(make_id(None)),
       PointerFile, NotesFile, PantryFile, StaplesFile >>

\* sorted(self.base_dir.glob("*.json"))
SortedNames(files) == SelectSeq(NameOrder, LAMBDA n : n \in DOMAIN files)

RECURSIVE ListFrom(_, _)
\* the loop of list_sessions over the paths still to visit: the sessions it
\* appends and the files it warns about
ListFrom(files, paths) ==
    IF paths = <<>> THEN [sessions |-> <<>>, warned |-> <<>>]
    ELSE LET path == Head(paths)
             rest == ListFrom(files, Tail(paths))
             read == model_validate_json(files[path])
         IN  IF path = PointerFile THEN rest
             ELSE IF read.ok THEN [rest EXCEPT !.sessions = read.value \o @]
             ELSE [rest EXCEPT !.warned = <<path>> \o @]

\* the loop, had the first file that cannot be read ended it
ListUntilUnreadable(files) ==
    LET paths == SortedNames(files)
        bad == {i \in 1..Len(paths) :
                   paths[i] # PointerFile /\ ~model_validate_json(files[paths[i]]).ok}
        upto == IF bad = {} THEN Len(paths)
                ELSE (CHOOSE i \in bad : \A k \in bad : i <= k) - 1
    IN  ListFrom(files, SubSeq(paths, 1, upto))

\* SessionManager.list_sessions
list_sessions(files) == ListFrom(files, SortedNames(files))

\* what the files of the model hold: sessions the commands can have stored
FileScales == Scales \cup {Infinity}
FileIds == {make_id(None), make_id(Some(<<"B", "!">>))}
FileEgg(confirmed_have) ==
    ProcessedIngredient(<<"egg">>, <<"2">>, "Dairy & Eggs", <<<<"2", Blank, "egg">>>>,
                        confirmed_have)
FileExtra == <<RawIngredient(<<"2", Blank, "egg">>, ManualTitle, <<>>)>>
FileSessions ==
    {[version |-> 1, id |-> id, name |-> IF id = make_id(None) THEN None ELSE Some(<<"B", "!">>),
      recipes |-> recipes,
      extra_items |-> rest.extra_items,
      processed_ingredients |-> rest.processed_ingredients,
      finalized |-> rest.finalized,
      output_path |-> IF rest.finalized THEN Some(OutputPath(id)) ELSE None] :
        id \in FileIds,
        recipes \in {<<>>} \cup {<<[Scrape("Soup") EXCEPT !.scale = scale]>> : scale \in FileScales},
        rest \in {[extra_items |-> <<>>, processed_ingredients |-> <<>>, finalized |-> FALSE],
                  [extra_items |-> FileExtra, processed_ingredients |-> <<FileEgg("None")>>,
                   finalized |-> FALSE],
                  [extra_items |-> FileExtra, processed_ingredients |-> <<FileEgg("True")>>,
                   finalized |-> TRUE],
                  [extra_items |-> FileExtra, processed_ingredients |-> <<FileEgg("False")>>,
                   finalized |-> TRUE]}}

\* a session record written before extra_items and scale existed
OldRecord(id) ==
    JObj([version |-> JNum(1), id |-> JStr(id), created_at |-> JStr(Now),
          updated_at |-> JStr(Now),
          recipes |-> JArr(<<JObj([title |-> JStr(Scrape("Soup").title),
                                   url |-> JStr(Scrape("Soup").url),
                                   raw_ingredients |->
                                       dump_strings(Scrape("Soup").raw_ingredients)])>>),
          processed_ingredients |-> JArr(<<>>),
          finalized |-> JBool(FALSE), output_path |-> JNull])

\* the pointer record, and the record of the Staples or the Pantry list
PointerRecord(id) == JObj([id |-> JStr(id)])
ListRecord(items) ==
    JArr([i \in 1..Len(items) |->
             JObj([name |-> JStr(items[i].name), quantity |-> JStr(items[i].quantity)])])

\* the files that are no session's: none, the pointer alone, or the pointer,
\* both lists and a file that holds no JSON
OtherFiles ==
    LET pointer == WriteFile(<<>>, PointerFile, PointerRecord(make_id(None)))
        staples_json ==
            WriteFile(pointer, StaplesFile, ListRecord(<<NamedItem(<<"egg">>, <<"2">>)>>))
        pantry_json ==
            WriteFile(staples_json, PantryFile, ListRecord(<<NamedItem(<<"salt">>, <<>>)>>))
    IN  {<<>>, pointer, WriteFile(pantry_json, NotesFile, NotJson)}

\* what a session's file holds before any save of the model: the file is not
\* there, it holds no JSON, or it holds an old record
OldFiles == {"absent", "no JSON", "old record"}
OldFile(files, id, kind) ==
    IF kind = "absent" THEN files
    ELSE WriteFile(files, session_path(id), IF kind = "no JSON" THEN NotJson ELSE OldRecord(id))

NotLoaded == [ok |-> FALSE, error |-> "", value |-> None]
NotListed == [sessions |-> <<>>, warned |-> <<>>]

InitFiles ==
    /\ store = <<>>
    /\ current = None
    /\ artifacts = <<>>
    /\ staples = <<>>
    /\ pantry = <<>>
    /\ run = RunIdle
    /\ last = Last("", "", <<>>)
    /\ ncmd = 0
    /\ \E others \in OtherFiles, one \in OldFiles, two \in OldFiles :
           LET files == OldFile(OldFile(others, make_id(None), one),
                                make_id(Some(<<"B", "!">>)), two)
           IN  call = [fn |-> "files", files |-> files, op |-> "", session |-> None,
                       id |-> None, loaded |-> NotLoaded, listed |-> NotListed]

\* manager.save(session)
SaveCall(session) ==
    /\ call.fn = "files"
    /\ call' = [call EXCEPT !.files = save(call.files, session), !.op = "save",
                            !.session = Some(session), !.id = None,
                            !.loaded = NotLoaded, !.listed = NotListed]
    /\ UNCHANGED <<store, current, artifacts, staples, pantry, run, last, ncmd>>

\* manager.load(session_id)
LoadCall(session_id) ==
    /\ call.fn = "files"
    /\ call' = [call EXCEPT !.op = "load", !.session = None, !.id = Some(session_id),
                            !.loaded = load(call.files, session_id), !.listed = NotListed]
    /\ UNCHANGED <<store, current, artifacts, staples, pantry, run, last, ncmd>>

\* manager.list_sessions()
ListSessionsCall ==
    /\ call.fn = "files"
    /\ call' = [call EXCEPT !.op = "list_sessions", !.session = None, !.id = None,
                            !.loaded = NotLoaded, !.listed = list_sessions(call.files)]
    /\ UNCHANGED <<store, current, artifacts, staples, pantry, run, last, ncmd>>

NextFiles ==
    \/ \E session \in FileSessions : SaveCall(session)
    \/ \E session_id \in FileIds : LoadCall(session_id)
    \/ ListSessionsCall

SpecFiles == InitFiles /\ [][NextFiles]_vars

(***************************************************************************)
(* session.py at the level of its file operations: two processes, each     *)
(* running one command (grocery item add or grocery new) against the same  *)
(* base_dir.  Path.write_text opens the file for writing, which truncates  *)
(* it, and then writes the text at offset 0; a process can be ended        *)
(* between any two operations, and the operations of the two processes     *)
(* interleave.  A file is [head, size, rest]: the value whose text its     *)
(* first size characters spell (none for an empty file) and the number of  *)
(* characters that follow it.                                              *)
(***************************************************************************)
Procs == {1, 2}

RECURSIVE SumLen(_)
SumLen(texts) == IF texts = <<>> THEN 0 ELSE Len(Head(texts)) + SumLen(Tail(texts))

\* the length of session.model_dump_json(), as far as it depends on the
\* session: it grows with the id and with the text of each extra item
TextSize(session) ==
    Len(session.id)
        + SumLen([i \in 1..Len(session.extra_items) |-> session.extra_items[i].text])

\* a file that holds the text of the value v and nothing else
WholeFile(v, size) == [head |-> Some(v), size |-> size, rest |-> 0]

\* open(path, "w"): the file is created or truncated
Truncated == [head |-> None, size |-> 0, rest |-> 0]

\* f.write(data) on a file opened before: data goes to offset 0, what the
\* file holds beyond the end of data stays
Overlay(file, data) ==
    [head |-> data.head, size |-> data.size,
     rest |-> IF file.size + file.rest > data.size
              THEN file.size + file.rest - data.size ELSE 0]

\* json.loads / model_validate_json of the file's text succeeds
Parses(file) == file.head # None /\ file.rest = 0

WriteBases ==
    LET fresh == GrocerySession(make_id(None), None)
        one == [fresh EXCEPT !.extra_items =
                   <<RawIngredient(ItemText(<<"egg">>, <<>>), ManualTitle, <<>>)>>]
    IN  {fresh, [one EXCEPT !.processed_ingredients = process(AllRaw(one), "merged").value]}

ProcIdle == [pc |-> "idle", cmd |-> "", session |-> None]

InitWrite ==
    /\ store = <<>>
    /\ current = None
    /\ artifacts = <<>>
    /\ staples = <<>>
    /\ pantry = <<>>
    /\ run = RunIdle
    /\ last = Last("", "", <<>>)
    /\ ncmd = 0
    /\ \E base \in WriteBases :
           call = [fn |-> "write",
                   base |-> base,
                   files |-> WriteFile(WriteFile(<<>>, session_path(base.id),
                                                 WholeFile(base, TextSize(base))),
                                       PointerFile, WholeFile(base.id, Len(base.id))),
                   proc |-> [p \in Procs |-> ProcIdle],
                   saved |-> <<>>]

WriteStep(p, pc, cmd, session, files, saved) ==
    /\ call' = [call EXCEPT !.proc[p] = [pc |-> pc, cmd |-> cmd, session |-> session],
                            !.files = files, !.saved = saved]
    /\ UNCHANGED <<store, current, artifacts, staples, pantry, run, last, ncmd>>

\* item_add up to the save in _process_all: load_current, append, process.
\* A pointer or session file that does not parse raises out of the command.
WriteItemAdd(p, name, quantity) ==
    /\ call.fn = "write" /\ call.proc[p].pc = "idle"
    /\ LET pointer == call.files[PointerFile]
           path == session_path(pointer.head[1])
       IN  IF ~Parses(pointer) \/ ~Parses(call.files[path])
           THEN WriteStep(p, "raised", "item add", None, call.files, call.saved)
           ELSE LET session == [call.files[path].head[1] EXCEPT
                                   !.extra_items =
                                       Append(@, RawIngredient(ItemText(name, quantity),
                                                               ManualTitle, <<>>))]
                    processed == process(AllRaw(session), "merged").value
                IN  WriteStep(p, "save", "item add",
                              Some([session EXCEPT !.processed_ingredients = processed]),
                              call.files, call.saved)

\* SessionManager.new up to its save
WriteNew(p, name) ==
    /\ call.fn = "write" /\ call.proc[p].pc = "idle"
    /\ WriteStep(p, "save", "new", Some(GrocerySession(make_id(name), name)),
                 call.files, call.saved)

\* the file a process is about to write, and the text it writes
WritePath(p) ==
    IF call.proc[p].pc \in {"save", "saving"} THEN session_path(call.proc[p].session[1].id)
    ELSE PointerFile
WriteData(p) ==
    IF call.proc[p].pc \in {"save", "saving"}
    THEN WholeFile(call.proc[p].session[1], TextSize(call.proc[p].session[1]))
    ELSE WholeFile(call.proc[p].session[1].id, Len(call.proc[p].session[1].id))

\* write_text, first half: open(path, "w")
WriteOpen(p) ==
    /\ call.fn = "write" /\ call.proc[p].pc \in {"save", "point"}
    /\ WriteStep(p, IF call.proc[p].pc = "save" THEN "saving" ELSE "pointing",
                 call.proc[p].cmd, call.proc[p].session,
                 WriteFile(call.files, WritePath(p), Truncated), call.saved)

\* write_text, second half: f.write(data) and close; new goes on to
\* _set_current, item add is done
WriteFlush(p) ==
    /\ call.fn = "write" /\ call.proc[p].pc \in {"saving", "pointing"}
    /\ WriteStep(p,
                 IF call.proc[p].pc = "saving" /\ call.proc[p].cmd = "new" THEN "point"
                 ELSE "done",
                 call.proc[p].cmd, call.proc[p].session,
                 WriteFile(call.files, WritePath(p),
                           Overlay(call.files[WritePath(p)], WriteData(p))),
                 IF call.proc[p].pc = "saving" THEN Append(call.saved, p) ELSE call.saved)

\* the process is ended in the middle of its command
WriteKill(p) ==
    /\ call.fn = "write" /\ call.proc[p].pc \in {"save", "saving", "point", "pointing"}
    /\ WriteStep(p, "killed", call.proc[p].cmd, call.proc[p].session, call.files, call.saved)

NextWrite ==
    \/ \E p \in Procs, name \in ItemNames, quantity \in TripQuantities :
           WriteItemAdd(p, name, quantity)
    \/ \E p \in Procs, name \in TripNames : WriteNew(p, name)
    \/ \E p \in Procs : WriteOpen(p)
    \/ \E p \in Procs : WriteFlush(p)
    \/ \E p \in Procs : WriteKill(p)

SpecWrite == InitWrite /\ [][NextWrite]_vars

(***************************************************************************)
(* The claims.                                                             *)
(***************************************************************************)
MutatingCmds ==
    {"recipe add", "recipe add --html", "recipe remove", "item add", "item remove"}

\* the stored record of the current session
Cur == store[current[1]]

\* a line as the claims speak of it: its text without a scale marker, and its label
Unmarked(text) ==
    IF Len(text) >= 2 /\ text[1] \in {"[x2.0]", "[x3.0]"} /\ text[2] = Blank
    THEN SubSeq(text, 3, Len(text)) ELSE text
Provenance(lines) ==
    [i \in 1..Len(lines) |-> <<Unmarked(lines[i].text), lines[i].recipe_title>>]

RECURSIVE LinesOfRecipes(_)
\* every ingredient line of every recipe, in recipe order
LinesOfRecipes(recipes) ==
    IF recipes = <<>> THEN <<>>
    ELSE [j \in 1..Len(recipes[1].raw_ingredients) |->
             <<recipes[1].raw_ingredients[j], recipes[1].title>>]
         \o LinesOfRecipes(Tail(recipes))

\* ... followed by every extra item, in order
LinesOfSession(session) ==
    LinesOfRecipes(session.recipes)
        \o [i \in 1..Len(session.extra_items) |->
               <<session.extra_items[i].text, session.extra_items[i].recipe_title>>]

\* the lists the model can answer to one request
Answers_of(lines) == {process(lines, kind).value : kind \in {"merged", "preset", "dropped"}}

\* C1: after a successful recipe add, recipe remove, item add or item remove
\* that leaves a recipe or an extra item, the stored processed_ingredients is
\* exactly the list returned by one consolidation call over every line of
\* every recipe in recipe order followed by every extra item in order; the
\* old list is replaced as a whole, none of its confirmed_have values is kept.
C1_Reconsolidated ==
    [][(last'.cmd \in MutatingCmds /\ last'.outcome = "ok") =>
         /\ Len(last'.sent) = 1
         /\ Provenance(last'.sent[1]) = LinesOfSession(store'[current'[1]])
         /\ store'[current'[1]].processed_ingredients \in Answers_of(last'.sent[1])]_vars

\* a recipe was removed from a session finalized earlier (whose ingredients
\* were all confirmed), and the list stored now is the model's fresh answer
C1_Witness ==
    /\ last.cmd = "recipe remove" /\ last.outcome = "ok"
    /\ Cur.finalized /\ Cur.extra_items # <<>>
    /\ \A i \in 1..Len(Cur.processed_ingredients) :
           Cur.processed_ingredients[i].confirmed_have = "None"

\* C2: if consolidation raises ProcessorError during a mutating command, the
\* stored session afterwards contains the command's change to recipes /
\* extra_items, and its processed_ingredients is the list stored before.
C2_MutationPersisted ==
    [][(last'.cmd \in MutatingCmds /\ last'.outcome = "ProcessorError") =>
         /\ <<store'[current'[1]].recipes, store'[current'[1]].extra_items>>
                # <<Cur.recipes, Cur.extra_items>>
         /\ Provenance(last'.sent[1]) = LinesOfSession(store'[current'[1]])
         /\ store'[current'[1]].processed_ingredients = Cur.processed_ingredients]_vars

\* C3: the consolidator is never called with an empty list: a remove that
\* leaves no recipe and no extra item stores processed_ingredients = [] with
\* no call, and a recipe add that added nothing makes no call.
C3_NoEmptyRequest ==
    /\ \A i \in 1..Len(last.sent) : last.sent[i] # <<>>
    /\ last.outcome = "none added" => last.sent = <<>>
    /\ (/\ last.cmd \in {"recipe remove", "item remove"}
        /\ last.outcome \notin {"FileNotFoundError", "out of range", "no api key"}
        /\ Cur.recipes = <<>> /\ Cur.extra_items = <<>>)
       => (last.sent = <<>> /\ Cur.processed_ingredients = <<>>)

\* the last extra item of a session without recipes was removed, from a
\* session that had ingredients before
C3_Witness ==
    /\ last.cmd = "item remove" /\ last.outcome = "cleared"
    /\ Cur.recipes = <<>> /\ Cur.extra_items = <<>> /\ Cur.processed_ingredients = <<>>
    /\ Cur.finalized

Resolved == {"True", "False"}

\* C4: while the stored record of a session has finalized = true (before and
\* after a step), no command changes its recipes, extra_items or
\* processed_ingredients.
C4_FinalizedImmutable ==
    [][\A id \in DOMAIN store :
          (store[id].finalized /\ id \in DOMAIN store' /\ store'[id].finalized) =>
             /\ store'[id].recipes = store[id].recipes
             /\ store'[id].extra_items = store[id].extra_items
             /\ store'[id].processed_ingredients = store[id].processed_ingredients]_vars

\* the ingredients of the done under way
RunIngredients == run.session[1].processed_ingredients

\* C5: when run_pantry_check has returned for a non-empty list, every
\* ingredient has confirmed_have true or false.
C5_AllResolved ==
    run.pc \in {"checked", "offer", "format"} =>
        /\ RunIngredients # <<>>
        /\ \A i \in 1..Len(RunIngredients) : RunIngredients[i].confirmed_have \in Resolved

\* the check has returned after asking for one ingredient and auto-marking another
C5_Witness ==
    /\ run.pc = "checked"
    /\ run.asked # {}
    /\ \E i \in 1..Len(RunIngredients) :
           run.start[i] = "None" /\ RunIngredients[i].name \in run.pantry_names

\* C6: in a done run, an ingredient that is unknown and whose name is in the
\* pantry names read at the start is set to true and never prompted for;
\* prompts are issued only for unknown ingredients that are not in the pantry.
C6_PantryNeverPrompted ==
    run.pc # "idle" =>
        /\ run.pc \in {"ask", "checked", "offer"} =>
               run.pantry_names = {pantry[k].name : k \in 1..Len(pantry)}
        /\ \A i \in 1..Len(RunIngredients) :
               (run.start[i] = "None" /\ RunIngredients[i].name \in run.pantry_names)
                   => (i \notin run.asked /\ RunIngredients[i].confirmed_have = "True")
        /\ \A i \in run.asked :
               run.start[i] = "None" /\ RunIngredients[i].name \notin run.pantry_names

\* one ingredient was auto-marked from the pantry while another was prompted for
C6_Witness ==
    /\ run.pc = "format"
    /\ \E i \in 1..Len(RunIngredients) :
           /\ run.start[i] = "None" /\ RunIngredients[i].name \in run.pantry_names
           /\ RunIngredients[i].confirmed_have = "True"
    /\ \E j \in run.asked : RunIngredients[j].confirmed_have = "False"

\* C7: an ingredient that is already true or false is never prompted for and
\* keeps its value, even if its name is in the pantry; a pass over a list that
\* is all resolved prompts for nothing and changes nothing.
C7_ResolvedUntouched ==
    run.pc # "idle" =>
        /\ \A i \in 1..Len(RunIngredients) :
               run.start[i] \in Resolved =>
                   (i \notin run.asked /\ RunIngredients[i].confirmed_have = run.start[i])
        /\ (\A i \in 1..Len(run.start) : run.start[i] \in Resolved) =>
               (run.asked = {} /\ run.pc # "ask"
                /\ [i \in 1..Len(RunIngredients) |-> RunIngredients[i].confirmed_have]
                       = run.start)

\* a second pass over the result of a finalized first one: an ingredient
\* answered "no" whose name has since been put in the pantry stays false
C7_Witness ==
    /\ run.pc = "checked"
    /\ run.session[1].finalized
    /\ run.asked = {}
    /\ \E i \in 1..Len(RunIngredients) :
           /\ run.start[i] = "False" /\ RunIngredients[i].name \in run.pantry_names
           /\ RunIngredients[i].confirmed_have = "False"

\* C8: finalized becomes true only as the last step of a done that has
\* completed the confirmation pass, and then output_path is the path of the
\* artifact named by the session id; no other command sets it.
C8_FinalizedOnlyByDone ==
    [][\A id \in DOMAIN store' :
          (store'[id].finalized /\ ~(id \in DOMAIN store /\ store[id].finalized)) =>
             /\ run.pc = "format" /\ run'.pc = "idle" /\ last'.cmd = "done"
             /\ id = run.session[1].id
             /\ \A i \in 1..Len(store'[id].processed_ingredients) :
                    store'[id].processed_ingredients[i].confirmed_have \in Resolved
             /\ store'[id].output_path = <<(<<"~/.grocery_lists/">> \o id \o <<".txt">>)>>
             /\ id \in DOMAIN artifacts']_vars

\* done has just finalized the current session
C8_Witness ==
    /\ last.cmd = "done" /\ last.outcome = "finalized"
    /\ HasCurrent /\ Cur.finalized /\ Cur.output_path # None
    /\ current[1] \in DOMAIN artifacts

\* C9: finalize is never invoked on a session whose processed_ingredients is
\* empty or holds an unknown; a done that finds the list empty stops before
\* the pantry check: no prompt, no artifact, the stored session and the
\* pantry unchanged.
C9_NoFinalizeWithoutIngredients ==
    [][/\ last'.outcome = "finalized" =>
            /\ RunIngredients # <<>>
            /\ \A i \in 1..Len(RunIngredients) : RunIngredients[i].confirmed_have \in Resolved
       /\ (/\ \E hasKey \in BOOLEAN : DoneStart(hasKey)
           /\ HasCurrent /\ Cur.processed_ingredients = <<>>) =>
            /\ run' = RunIdle
            /\ UNCHANGED <<store, current, artifacts, pantry>>]_vars

\* done has stopped on a session that holds an extra item but no processed
\* ingredient (its consolidation failed)
C9_Witness ==
    /\ last.cmd = "done" /\ last.outcome = "no ingredients"
    /\ HasCurrent /\ Cur.processed_ingredients = <<>> /\ Cur.extra_items # <<>>
    /\ ~Cur.finalized /\ current[1] \notin DOMAIN artifacts

RECURSIVE SplitLines(_, _)
\* text.split("\n"), with cur the line being read
SplitLines(text, cur) ==
    IF text = <<>> THEN <<cur>>
    ELSE IF Head(text) = Newline THEN <<cur>> \o SplitLines(Tail(text), <<>>)
    ELSE SplitLines(Tail(text), Append(cur, Head(text)))

\* the checklist lines of an artifact
ChecklistLines(text) ==
    SelectSeq(SplitLines(text, <<>>), LAMBDA l : l # <<>> /\ l[1] = "[ ]")

SeqToBag(s) == [x \in Range(s) |-> Cardinality({i \in 1..Len(s) : s[i] = x})]

Opened == last'.cmd = "open" /\ last'.outcome \in {"ok", "reopened"}

\* C11: open(id) on an existing session sets finalized to false and makes it
\* current, leaving recipes, extra_items, processed_ingredients and every
\* confirmed_have as stored; so a done directly after reopening a finalized
\* session prompts for no ingredient.
C11_ReopenKeepsConfirmations ==
    [][/\ Opened =>
            /\ current' # None /\ current'[1] \in DOMAIN store
            /\ DOMAIN store' = DOMAIN store
            /\ \A id \in DOMAIN store :
                   /\ store'[id].recipes = store[id].recipes
                   /\ store'[id].extra_items = store[id].extra_items
                   /\ store'[id].processed_ingredients = store[id].processed_ingredients
                   /\ store'[id].finalized = (id # current'[1] /\ store[id].finalized)
       /\ (last.cmd = "open" /\ last.outcome = "reopened" /\ last'.cmd = "done") =>
            run'.pc # "ask"]_vars

\* C12: open(id) for an id with no stored record fails with NotFound and
\* changes nothing: the pointer still names the session that was current and
\* no session record is created or modified.
C12_OpenUnknownChangesNothing ==
    [][/\ (last'.cmd = "open" /\ last'.outcome = "FileNotFoundError") =>
            UNCHANGED <<store, current, artifacts, staples, pantry>>
       /\ Opened => (current'[1] \in DOMAIN store /\ DOMAIN store' = DOMAIN store)
       /\ \A id \in TripIds :
            (id \notin DOMAIN store /\ OpenSession(id)) =>
                last'.outcome = "FileNotFoundError"]_vars

\* an open failed while another session was current, and it still is
C12_Witness ==
    /\ last.cmd = "open" /\ last.outcome = "FileNotFoundError"
    /\ HasCurrent /\ Cur.extra_items # <<>>

\* the id new gives a session of the given name
IdOfName(name) ==
    IF name = <<>> THEN <<"2026-11-05", "-", "s", "e", "s", "s", "i", "o", "n">>
    ELSE <<"2026-11-05", "-", "b">>

\* C13: the pointer names exactly one session: the one targeted by the most
\* recent new or successful open, whose record can always be loaded; before
\* the first new there is no pointer and load_current fails.
C13_PointerNamesLatest ==
    [][/\ (DOMAIN store = {}) = (current = None)
       /\ current # None => current[1] \in DOMAIN store
       /\ current' # None => current'[1] \in DOMAIN store'
       /\ last'.cmd = "new" =>
            /\ current' # None
            /\ current'[1] = IdOfName(store'[current'[1]].name)
            /\ store'[current'[1]].id = current'[1]
       /\ Opened => \A id \in TripIds : OpenSession(id) => current' = <<id>>
       /\ (last'.cmd # "new" /\ ~Opened) => current' = current]_vars

\* two sessions are stored and the pointer was switched back to the older one,
\* the session without a name, by open
C13_Witness ==
    /\ last.cmd = "open" /\ last.outcome \in {"ok", "reopened"}
    /\ Cardinality(DOMAIN store) = 2
    /\ current = <<IdOfName(<<>>)>>
    /\ Cur.name = None

\* C14: new persists a session that is current, not finalized, without
\* recipes or processed ingredients, whose extra_items is one line per staple
\* in list order, with text "<quantity> <name>" trimmed and label "[staple]".
C14_NewSeedsStaples ==
    [][last'.cmd = "new" =>
          LET s == store'[current'[1]]
          IN  /\ ~s.finalized /\ s.output_path = <<>>
              /\ s.recipes = <<>> /\ s.processed_ingredients = <<>>
              /\ Len(s.extra_items) = Len(staples)
              /\ \A i \in 1..Len(staples) :
                     /\ s.extra_items[i].text =
                            (IF staples[i].quantity = <<>> THEN staples[i].name
                             ELSE staples[i].quantity \o <<" ">> \o staples[i].name)
                     /\ s.extra_items[i].recipe_title = <<"[staple]">>
                     /\ s.extra_items[i].recipe_url = <<>>]_vars

\* a session was created from two staples, one of them with a quantity
C14_Witness ==
    /\ last.cmd = "new"
    /\ Len(staples) = 2 /\ staples[1].quantity # <<>> /\ staples[2].quantity = <<>>
    /\ Len(Cur.extra_items) = 2

\* the call of process exercised on its own has returned or raised
Processed == call.fn = "process" /\ call.done

\* C15: consolidation is all-or-nothing: a response without parsable JSON,
\* one that is not an array of objects, or one with an item that lacks a
\* required field makes the call raise ProcessorError, and the stored
\* processed_ingredients is not replaced.
C15_AllOrNothing ==
    (Processed /\ call.kind \in {"malformed", "numbers", "number", "emptyobject", "partial"})
        => /\ call.out.raised = "ProcessorError"
           /\ call.out.files = call.files

\* C16: the raw_sources of the records of an accepted result partition the
\* raw lines sent: every record has a non-empty raw_sources made of sent
\* lines, and every sent line is in the raw_sources of exactly one record.
C16_SourcesPartitionLines ==
    (Processed /\ call.out.raised = "") =>
        LET recs == call.out.files[call.session.id].processed_ingredients
            sent == call.out.sent[1]
            texts == {sent[i].text : i \in 1..Len(sent)}
            sources == Flatten([k \in 1..Len(recs) |-> recs[k].raw_sources])
        IN  /\ \A k \in 1..Len(recs) :
                   recs[k].raw_sources # <<>> /\ Range(recs[k].raw_sources) \subseteq texts
            /\ \A t \in texts :
                   Cardinality({k \in 1..Len(recs) : t \in Range(recs[k].raw_sources)}) = 1
            /\ \A t \in texts :
                   Cardinality({i \in 1..Len(sources) : sources[i] = t})
                       = Cardinality({i \in 1..Len(sent) : sent[i].text = t})

\* C17: every record the consolidator returns has confirmed_have unknown,
\* whatever the response holds, so that after a successful re-consolidation
\* the next done prompts for every ingredient that is not in the pantry.
C17_FreshRecordsUnknown ==
    [][/\ (last'.cmd \in MutatingCmds /\ last'.outcome = "ok") =>
            \A i \in 1..Len(store'[current'[1]].processed_ingredients) :
                store'[current'[1]].processed_ingredients[i].confirmed_have = "None"
       /\ (last.cmd \in MutatingCmds /\ last.outcome = "ok"
           /\ last'.cmd = "done" /\ run'.pc # "idle") =>
            \A i \in 1..Len(Cur.processed_ingredients) :
                Cur.processed_ingredients[i].name \notin run'.pantry_names
                    => \E k \in 1..Len(run'.to_check) : run'.to_check[k] = i]_vars

\* what the prompt's answers mean: yes, no, or neither
YesAnswers == {<<Blank, "Y", "E", "S">>, <<"y">>}
NoAnswers == {<<"N", "o", Newline>>}
Meaning(answer) ==
    IF answer \in YesAnswers THEN "True" ELSE IF answer \in NoAnswers THEN "False" ELSE "None"

\* at a prompt: the ingredients to ask about are in list order, the ones
\* before the current one are answered, the current and later ones are not
AskedInOrder ==
    /\ \A j, k \in 1..Len(run.to_check) : j < k => run.to_check[j] < run.to_check[k]
    /\ \A k \in 1..Len(run.to_check) :
           (RunIngredients[run.to_check[k]].confirmed_have = "None") <=> (k >= run.pos)

\* C18: the pantry check asks about the ingredients in list order and
\* finishes one before the next; an unrecognized answer repeats the prompt
\* for the same ingredient, which stays unknown; the first recognized answer
\* (y or yes: true, n or no: false, whatever the case and the surrounding
\* whitespace) sets it and moves on; no other ingredient changes.
C18_PromptUntilRecognized ==
    [][/\ run.pc = "ask" => AskedInOrder
       /\ \A answer \in Answers : DoneAnswer(answer) =>
              LET i == run.to_check[run.pos]
                  after == run'.session[1].processed_ingredients
              IN  /\ after[i].confirmed_have = Meaning(answer)
                  /\ \A j \in 1..Len(after) : j # i => after[j] = RunIngredients[j]
                  /\ Len(after) = Len(RunIngredients)
                  /\ Meaning(answer) = "None" =>
                         run'.pc = "ask" /\ run'.pos = run.pos /\ run'.tries = run.tries + 1
                  /\ Meaning(answer) # "None" =>
                         IF run.pos < Len(run.to_check)
                         THEN run'.pc = "ask" /\ run'.pos = run.pos + 1
                         ELSE run'.pc = "checked"]_vars

\* the second of two prompts, repeated after an unrecognized answer
C18_Witness ==
    /\ run.pc = "ask" /\ run.pos = 2 /\ run.tries = MaxTries
    /\ RunIngredients[run.to_check[1]].confirmed_have \in Resolved

\* the call of format_grocery_list exercised on its own has returned
Formatted == call.fn = "format" /\ call.done

\* the section an ingredient belongs under: its own if listed, else the catch-all
PlaceOf(ingredient, sections) ==
    IF \E k \in 1..Len(sections) : sections[k] = ingredient.section
    THEN ingredient.section ELSE "Other"

\* the header lines of a formatted text, in the order they appear
Headers(text, sections) ==
    LET lines == SelectSeq(SplitLines(text, <<>>),
                           LAMBDA l : Len(l) = 1 /\ l[1] \in Range(sections))
    IN  [k \in 1..Len(lines) |-> lines[k][1]]

\* the checklist lines of a formatted text that stand under the header of a section
RECURSIVE LinesUnder(_, _, _, _)
LinesUnder(lines, section, sections, inside) ==
    IF lines = <<>> THEN <<>>
    ELSE LET l == Head(lines)
             header == Len(l) = 1 /\ l[1] \in Range(sections)
             now == IF header THEN l[1] = section ELSE inside
         IN  (IF now /\ l # <<>> /\ l[1] = "[ ]" THEN <<l>> ELSE <<>>)
             \o LinesUnder(Tail(lines), section, sections, now)

\* C19: for any section list and any ingredient list, the formatted text
\* holds every input ingredient exactly once, under its own section when the
\* section is listed and under the catch-all otherwise; none is omitted.
C19_EveryIngredientOnce ==
    Formatted =>
        LET ings == call.ingredients
            lines == SplitLines(call.out, <<>>)
        IN  /\ SeqToBag(ChecklistLines(call.out))
                   = SeqToBag([i \in 1..Len(ings) |-> ItemLine(ings[i])])
            /\ \A i \in 1..Len(ings) :
                   ItemLine(ings[i]) \in
                       Range(LinesUnder(lines, PlaceOf(ings[i], call.sections),
                                        call.sections, FALSE))

\* C20: the headers of the formatted text are the sections that have at
\* least one ingredient, in the order of the section list, and the lines
\* under a header are that section's ingredients in input order.
C20_SectionsInOrder ==
    Formatted =>
        LET ings == call.ingredients
            sections == call.sections
            lines == SplitLines(call.out, <<>>)
            Of(section) == SelectSeq(ings, LAMBDA i : PlaceOf(i, sections) = section)
        IN  /\ Headers(call.out, sections)
                   = SelectSeq(sections, LAMBDA section : Of(section) # <<>>)
            /\ \A k \in 1..Len(sections) :
                   LinesUnder(lines, sections[k], sections, FALSE)
                       = [j \in 1..Len(Of(sections[k])) |-> ItemLine(Of(sections[k])[j])]

\* two headers, a listed section left out between them, two different
\* ingredients under one header
C20_Witness ==
    /\ Formatted
    /\ call.sections = <<"Other", "Dairy & Eggs", "Produce">>
    /\ Headers(call.out, call.sections) = <<"Other", "Produce">>
    /\ Len(call.ingredients) = 3
    /\ call.ingredients[1].name = <<"kale">>
    /\ call.ingredients[2].name = <<"garlic">>
    /\ call.ingredients[3].name = <<"foil">>

\* the scale markers a text holds
Markers(text) == {i \in 1..Len(text) : text[i] \in {"[x2.0]", "[x3.0]"}}

\* the lines a session is to send: each recipe's stored lines in order, with
\* the marker of the recipe's scale and a blank in front when the scale is not
\* 1, then the extra items as they are
MarkedLines(session) ==
    Flatten([i \in 1..Len(session.recipes) |->
                [j \in 1..Len(session.recipes[i].raw_ingredients) |->
                    <<IF session.recipes[i].scale = 1 THEN <<>>
                      ELSE <<ScaleMarker(session.recipes[i].scale), Blank>>,
                      session.recipes[i].raw_ingredients[j]>>]])
        \o [i \in 1..Len(session.extra_items) |-> <<<<>>, session.extra_items[i].text>>]

\* C21: in every consolidation request a line of a recipe whose scale is not
\* 1.0 carries exactly one scale marker in front and a line of a recipe of
\* scale 1.0 and an extra item are sent as stored; the lines stored in the
\* session's recipes never carry a marker, so markers do not accumulate.
C21_OneMarkerPerScaledLine ==
    [][/\ last'.cmd \in MutatingCmds =>
              \A id \in DOMAIN store' : \A i \in 1..Len(store'[id].recipes) :
                  \A j \in 1..Len(store'[id].recipes[i].raw_ingredients) :
                      Markers(store'[id].recipes[i].raw_ingredients[j]) = {}
       /\ last'.sent # <<>> =>
              \A k \in 1..Len(last'.sent[1]) : Cardinality(Markers(last'.sent[1][k].text)) <= 1
       /\ (last'.sent # <<>> /\ last'.outcome = "ok") =>
              LET sent == last'.sent[1]
                  want == MarkedLines(store'[current'[1]])
              IN  /\ Len(sent) = Len(want)
                  /\ \A k \in 1..Len(sent) : sent[k].text = want[k][1] \o want[k][2]]_vars

\* a doubled recipe consolidated a second time, together with an extra item
C21_Witness ==
    /\ last.cmd = "item add" /\ last.outcome = "ok"
    /\ Len(Cur.recipes) = 1 /\ Cur.recipes[1].scale = 2
    /\ last.sent[1][1].text = <<"[x2.0]", Blank, "2", Blank, "garlic">>
    /\ Markers(last.sent[1][Len(last.sent[1])].text) = {}

\* C22: item add (name, quantity) appends exactly one line to the end of the
\* current session's extra_items, with text "<quantity> <name>" trimmed and
\* label "[added manually]"; the extra items already there (staple lines
\* included) and the recipes stay as they are and in order; the whole list,
\* the new line last, is then sent for consolidation.
C22_ItemAddAppendsOne ==
    [][\A name \in ItemNames, quantity \in TripQuantities :
           (HasCurrent /\ ItemAdd(name, quantity, TRUE, "merged")) =>
               LET old == Cur
                   new == store'[current'[1]]
                   n == Len(old.extra_items)
                   line == [text |-> IF quantity = <<>> THEN name
                                     ELSE quantity \o <<Blank>> \o name,
                            recipe_title |-> <<"[added manually]">>,
                            recipe_url |-> <<>>]
               IN  /\ current' = current
                   /\ new.recipes = old.recipes
                   /\ Len(new.extra_items) = n + 1
                   /\ SubSeq(new.extra_items, 1, n) = old.extra_items
                   /\ new.extra_items[n + 1] = line
                   /\ Len(last'.sent) = 1
                   /\ last'.sent[1] = AllRaw(new)
                   /\ last'.sent[1][Len(last'.sent[1])] = line]_vars

\* an item with a quantity was added behind a staple line
C22_Witness ==
    /\ last.cmd = "item add" /\ last.outcome = "ok"
    /\ Len(Cur.extra_items) = 2
    /\ Cur.extra_items[1].recipe_title = StapleTitle
    /\ Cur.extra_items[2].text = <<"2", Blank, "egg">>

\* s without its element at position p
Without(s, p) == [j \in 1..(Len(s) - 1) |-> IF j < p THEN s[j] ELSE s[j + 1]]

\* the position in extra_items of the k-th line that item list shows
ListedAt(extra_items, k) ==
    CHOOSE p \in 1..Len(extra_items) :
        /\ extra_items[p].recipe_title = <<"[added manually]">>
        /\ Cardinality({q \in 1..p : extra_items[q].recipe_title = <<"[added manually]">>}) = k

\* C23: recipe remove and item remove with an index below 1 or above the
\* length of the list shown end in an error with the stored session as it was
\* and nothing sent for consolidation; with a valid index k, a remove that
\* runs to its end has taken out exactly the k-th element shown and kept the
\* other elements, of both lists, in their order.
C23_RemoveByIndex ==
    [][\A hasKey \in BOOLEAN, kind \in EditKinds :
        /\ \A index \in 0..(MaxRecipes + 2) :
               (HasCurrent /\ RecipeRemove(index, hasKey, kind)) =>
                   IF index < 1 \/ index > Len(Cur.recipes)
                   THEN store' = store /\ last'.sent = <<>> /\ last'.outcome = "out of range"
                   ELSE last'.outcome \in {"ok", "ProcessorError", "cleared"} =>
                            /\ store'[current'[1]].recipes = Without(Cur.recipes, index)
                            /\ store'[current'[1]].extra_items = Cur.extra_items
        /\ \A index \in 0..(MaxExtra + 1) :
               (HasCurrent /\ ItemRemove(index, hasKey, kind)) =>
                   LET shown == Cardinality({q \in 1..Len(Cur.extra_items) :
                                    Cur.extra_items[q].recipe_title = <<"[added manually]">>})
                   IN  IF index < 1 \/ index > shown
                       THEN store' = store /\ last'.sent = <<>>
                            /\ last'.outcome = "out of range"
                       ELSE last'.outcome \in {"ok", "ProcessorError", "cleared"} =>
                                /\ store'[current'[1]].extra_items
                                       = Without(Cur.extra_items, ListedAt(Cur.extra_items, index))
                                /\ store'[current'[1]].recipes = Cur.recipes]_vars

\* the pages among the URLs given, in the order given
Fetched(attempts) == SelectSeq(attempts, LAMBDA a : a \notin {"FetchError", "ScrapeError"})

\* C24: in the URL loop of recipe add a FetchError or ScrapeError adds nothing
\* for its URL and does not end the loop: at the end the session's recipes are
\* the recipes it had followed by one recipe for each URL fetched and scraped,
\* in the order given; if there is none the stored session is unchanged.
C24_LoopSurvivesErrors ==
    [][\A attempts \in UrlRuns, scale \in Scales, kind \in EditKinds :
           (HasCurrent /\ last'.cmd = "recipe add" /\ RecipeAdd(TRUE, attempts, scale, kind)) =>
               LET pages == Fetched(attempts)
                   want == [Cur EXCEPT !.recipes = @ \o
                               [k \in 1..Len(pages) |->
                                   [title |-> <<pages[k]>>,
                                    url |-> <<"https://", pages[k]>>,
                                    raw_ingredients |-> Scrape(pages[k]).raw_ingredients,
                                    scale |-> scale]]]
               IN  IF pages = <<>>
                   THEN store' = store /\ last'.sent = <<>> /\ last'.outcome = "none added"
                   ELSE /\ Len(last'.sent) = 1
                        /\ Provenance(last'.sent[1]) = LinesOfSession(want)
                        /\ last'.outcome \in {"ok", "ProcessorError"} =>
                               store'[current'[1]].recipes = want.recipes]_vars

\* a recipe was added by a loop in which other URLs failed
C24_Witness ==
    /\ last.cmd = "recipe add" /\ last.outcome \in {"ok", "ProcessorError"}
    /\ Len(Cur.recipes) = 1 /\ Cur.recipes[1].title = <<"Soup">>
    /\ Cur.extra_items # <<>>

\* a command stopped on the missing credential with nothing done: no prompt
\* opened, nothing sent to the model, no file written
StoppedOnCredential(cmd) ==
    /\ last' = [cmd |-> cmd, outcome |-> "no api key", sent |-> <<>>]
    /\ run'.pc = "idle"
    /\ store' = store /\ current' = current /\ artifacts' = artifacts
    /\ pantry' = pantry /\ staples' = staples

\* C25: without the credential, recipe add, item add and done stop with an
\* error before any prompt, fetch, consolidation call, pantry check or write
\* to the pantry, and the stored session stays as it was.
C25_CredentialCheckedFirst ==
    [][HasCurrent =>
         /\ \A attempts \in UrlRuns :
                RecipeAdd(FALSE, attempts, 1, "merged") => StoppedOnCredential("recipe add")
         /\ \A source \in {"url", "file"}, outcome \in FetchOutcomes :
                RecipeAddHtml(FALSE, source, outcome, 1, "merged")
                    => StoppedOnCredential("recipe add --html")
         /\ \A name \in ItemNames, quantity \in Quantities :
                ItemAdd(name, quantity, FALSE, "merged") => StoppedOnCredential("item add")
         /\ DoneStart(FALSE) => StoppedOnCredential("done")]_vars

\* done stopped on the missing credential although ingredients wait for their
\* answers and a page could have been fetched
C25_Witness ==
    /\ last.cmd = "done" /\ last.outcome = "no api key"
    /\ HasCurrent
    /\ \E i \in 1..Len(Cur.processed_ingredients) :
           Cur.processed_ingredients[i].confirmed_have = "None"

\* no two entries of a named list have the same name
OnePerName(items) == \A i, j \in 1..Len(items) : items[i].name = items[j].name => i = j

\* C26: from the empty store, after any sequence of adds and removes, the
\* staples list and the pantry list each hold at most one entry per name.
C26_OneEntryPerName == OnePerName(staples) /\ OnePerName(pantry)

\* both lists hold both names, and one command more than that takes was run
C26_Witness ==
    /\ Len(staples) = 2 /\ Len(pantry) = 2
    /\ ncmd = 5

\* the names a named list holds
Held(items) == {items[i].name : i \in 1..Len(items)}

\* C27: for staples and pantry, add of a name that is already there leaves
\* the stored entries as they are (the entry keeps its quantity, whatever
\* quantity is given), and remove of a name that is not there leaves them as
\* they are and ends without an error.
C27_AddPresentRemoveAbsent ==
    [][\A name \in TripStaples :
        /\ \A quantity \in TripQuantities :
               /\ (name \in Held(staples) /\ StapleAdd(name, quantity)) =>
                      staples' = staples /\ last'.outcome = "ok"
               /\ (name \in Held(pantry) /\ PantryAdd(name, quantity)) =>
                      pantry' = pantry /\ last'.outcome = "ok"
        /\ (name \notin Held(staples) /\ StapleRemove(name)) =>
               staples' = staples /\ last'.outcome = "ok"
        /\ (name \notin Held(pantry) /\ PantryRemove(name)) =>
               pantry' = pantry /\ last'.outcome = "ok"]_vars

\* two commands were run, the second a staple add, and one staple with its
\* first quantity is all there is: the second command added a name already
\* there, or the first removed a name that was not
C27_Witness ==
    /\ ncmd = 2 /\ last.cmd = "staple add"
    /\ staples = <<[name |-> <<"egg">>, quantity |-> <<>>]>> /\ pantry = <<>>

\* the session files of call.files whose record a save or an old version of
\* the program wrote whole and with finite scales: the sessions that can be read
Readable(files) ==
    {id \in FileIds :
        /\ session_path(id) \in DOMAIN files
        /\ files[session_path(id)].t = "obj"
        /\ \/ files[session_path(id)] = OldRecord(id)
           \/ \E s \in FileSessions :
                  /\ s.id = id /\ files[session_path(id)] = model_dump_json(s)
                  /\ \A i \in 1..Len(s.recipes) : s.recipes[i].scale # Infinity}

\* C28: list_sessions returns exactly the stored session records that can be
\* read, each once: the pointer record is never among them, and a file that
\* cannot be read as a session (no JSON, the Staples record, the Pantry
\* record) is skipped with a warning, without failing the listing and
\* without hiding a readable session.
C28_ListsReadableSessions ==
    (call.fn = "files" /\ call.op = "list_sessions") =>
        LET listed == call.listed.sessions
        IN  /\ {listed[i].id : i \in 1..Len(listed)} = Readable(call.files)
            /\ Len(listed) = Cardinality(Readable(call.files))
            /\ \A path \in DOMAIN call.files \ {PointerFile} :
                   path \notin {session_path(id) : id \in Readable(call.files)} =>
                       path \in Range(call.listed.warned)

\* a listing of the pointer, both lists, a file without JSON, a session file
\* that cannot be read and, sorted after it, one that can
C28_Witness ==
    /\ call.fn = "files" /\ call.op = "list_sessions"
    /\ {PointerFile, StaplesFile, PantryFile, NotesFile} \subseteq DOMAIN call.files
    /\ Readable(call.files) = {make_id(None)}
    /\ session_path(make_id(Some(<<"B", "!">>))) \in DOMAIN call.files
    /\ Len(call.listed.sessions) = 1 /\ Len(call.listed.warned) = 4

\* the fields of a session the claims about its record speak of
SameRecord(a, b) ==
    /\ a.id = b.id /\ a.version = b.version /\ a.finalized = b.finalized
    /\ a.output_path = b.output_path
    /\ a.recipes = b.recipes
    /\ a.extra_items = b.extra_items
    /\ a.processed_ingredients = b.processed_ingredients

\* C29: for every session value, saving it and then loading it by its id
\* yields a session with the same id, version, finalized flag, output path,
\* recipes (scale included), extra items and processed ingredients (each
\* tri-state confirmed_have included); a record that lacks extra_items or a
\* recipe's scale loads with the defaults, the empty list and 1.0.
C29_SaveLoadRoundTrip ==
    [][/\ (call.op = "save" /\ call'.op = "load" /\ call'.id = Some(call.session[1].id)) =>
              /\ call'.loaded.ok
              /\ SameRecord(call'.loaded.value[1], call.session[1])
       /\ \A id \in FileIds :
              (/\ call'.op = "load" /\ call'.id = Some(id)
               /\ session_path(id) \in DOMAIN call.files
               /\ call.files[session_path(id)].t = "obj"
               /\ call.files[session_path(id)] = OldRecord(id)) =>
                  /\ call'.loaded.ok
                  /\ call'.loaded.value[1].extra_items = <<>>
                  /\ \A i \in 1..Len(call'.loaded.value[1].recipes) :
                         call'.loaded.value[1].recipes[i].scale = 1]_vars

\* C30: after the confirmation pass of a done run, the ingredients offered
\* for the Pantry are exactly those marked true during this pass whose name
\* is not in the Pantry: an ingredient confirmed from the Pantry, or one that
\* was true before the pass, is not offered.
C30_OffersNewlyMarked ==
    run.pc \in {"offer", "format"} =>
        Range(run.offered) =
            {i \in 1..Len(RunIngredients) :
                /\ RunIngredients[i].confirmed_have = "True"
                /\ run.start[i] # "True"
                /\ RunIngredients[i].name \notin run.pantry_names}

\* C32: new never overwrites or alters the stored record of a session that
\* already exists: after a new, every session stored before is still stored
\* with the recipes, extra items and processed ingredients it had.
C32_NewKeepsSessions ==
    [][(\E name \in TripNames : New(name)) =>
          \A id \in DOMAIN store :
              /\ id \in DOMAIN store'
              /\ store'[id].recipes = store[id].recipes
              /\ store'[id].extra_items = store[id].extra_items
              /\ store'[id].processed_ingredients = store[id].processed_ingredients]_vars

\* C34: in every reachable state, the artifact of each stored session with
\* finalized = true is the formatted checklist of the processed ingredients
\* the session has now whose confirmed_have is false.
C34_ArtifactMatchesSession ==
    \A id \in DOMAIN store :
        store[id].finalized =>
            /\ id \in DOMAIN artifacts
            /\ store[id].output_path = Some(OutputPath(id))
            /\ artifacts[id] =
                   format_grocery_list(NeedToBuy(store[id].processed_ingredients),
                                       store_sections)

\* C36: when recipe remove or item remove, with a valid index, stops because
\* the credential is missing, the stored records are those from before the
\* command: the removal is not saved and the processed ingredients stay.
C36_RemoveWithoutKeyKeepsRecord ==
    [][\A kind \in EditKinds :
        /\ \A index \in 1..(MaxRecipes + 2) :
               (/\ HasCurrent /\ last'.cmd = "recipe remove"
                /\ index <= Len(CurrentSession.recipes)
                /\ Len(CurrentSession.recipes) + Len(CurrentSession.extra_items) > 1
                /\ RecipeRemove(index, FALSE, kind)) =>
                   store' = store /\ last'.outcome = "no api key"
        /\ \A index \in 1..(MaxExtra + 1) :
               (/\ HasCurrent /\ last'.cmd = "item remove"
                /\ index <= Len(ManualItems(CurrentSession))
                /\ Len(CurrentSession.recipes) + Len(CurrentSession.extra_items) > 1
                /\ ItemRemove(index, FALSE, kind)) =>
                   store' = store /\ last'.outcome = "no api key"]_vars

\* a remove has stopped on the missing credential, and the session still
\* holds what would have been removed
C36_Witness ==
    /\ last.cmd \in {"recipe remove", "item remove"} /\ last.outcome = "no api key"
    /\ HasCurrent /\ Cur.recipes # <<>> /\ ManualItems(Cur) # <<>>
    /\ Cur.processed_ingredients # <<>>

\* a list of ingredients without its confirmations
Unconfirmed(ingredients) ==
    [i \in 1..Len(ingredients) |-> [ingredients[i] EXCEPT !.confirmed_have = "None"]]

\* C33: whenever done finalizes a session, its processed ingredients are the
\* result of a successful consolidation of the recipes and extra items it
\* holds at that moment, never a list that is stale with respect to them.
C33_FinalizedFromFreshList ==
    [][DoneFinish =>
          LET session == store'[run.session[1].id]
          IN  \E kind \in Kinds :
                  /\ process(AllRaw(session), kind).raised = ""
                  /\ Unconfirmed(process(AllRaw(session), kind).value) =
                         Unconfirmed(session.processed_ingredients)]_vars

\* the lines of extra_items labelled '[staple]', in their order
StapleLines(extra_items) ==
    SelectSeq(extra_items, LAMBDA it : it.recipe_title = <<"[staple]">>)

\* C35: item remove numbers only the extra items labelled '[added
\* manually]', in their order within extra_items: item remove k takes out
\* exactly one extra item, equal to the k-th line item list shows, and never
\* takes out or reorders a '[staple]' line, so a session seeded with staples
\* keeps at least one extra item whatever is removed.
C35_RemoveNumbersManualItems ==
    [][\A kind \in EditKinds, index \in 0..(MaxExtra + 1) :
        (HasCurrent /\ last'.cmd = "item remove" /\ ItemRemove(index, TRUE, kind)) =>
            LET before == Cur.extra_items
                after == store'[current'[1]].extra_items
                shown == Cardinality({q \in 1..Len(before) :
                             before[q].recipe_title = <<"[added manually]">>})
            IN  IF index < 1 \/ index > shown THEN after = before
                ELSE /\ \E p \in 1..Len(before) :
                            /\ before[p] = before[ListedAt(before, index)]
                            /\ after = Without(before, p)
                     /\ StapleLines(after) = StapleLines(before)
                     /\ StapleLines(before) # <<>> => after # <<>>]_vars

\* item remove 1 has taken the one manual line out of a session seeded with
\* a staple, whose line is all that is left
C35_Witness ==
    /\ last.cmd = "item remove" /\ last.outcome = "ok" /\ ncmd = MaxCmds - 1
    /\ HasCurrent /\ Cur.extra_items = StapleLines(Cur.extra_items) /\ Len(Cur.extra_items) = 1

\* the numerals of the indices a list of MaxExtra + 2 * MaxRecipes names can have
Numerals == <<"1", "2", "3", "4", "5", "6", "7", "8", "9">>

\* C37: the only change a done run makes to the Pantry is to add the names
\* of the offered ingredients picked by a valid 1-based index: a blank answer
\* leaves the Pantry as it is, tokens that are no number or out of range are
\* ignored, no entry is removed or modified, and no name is stored twice,
\* even when its index is entered twice.
C37_OfferOnlyAddsSelected ==
    [][/\ (run.pc # "idle" /\ run'.pc # "offer" /\ run.pc # "offer") => pantry' = pantry
       /\ \A answer \in OfferAnswers :
              DoneOffer(answer) =>
                  LET picked == {k \in 1..Len(run.offered) :
                                    k <= Len(Numerals) /\ Numerals[k] \in Range(answer)}
                  IN  /\ SubSeq(pantry', 1, Len(pantry)) = pantry
                      /\ {pantry'[i].name : i \in 1..Len(pantry')} =
                             {pantry[i].name : i \in 1..Len(pantry)} \cup
                             {RunIngredients[run.offered[k]].name : k \in picked}
                      /\ \A i, j \in 1..Len(pantry') :
                             pantry'[i].name = pantry'[j].name => i = j
                      /\ Range(answer) \subseteq {Blank} => pantry' = pantry]_vars

\* an answer to the offer picked the first name offered, and the Pantry,
\* empty before the run, holds that name once
C37_Witness ==
    /\ run.pc = "format" /\ run.offered # <<>>
    /\ Len(pantry) = 1 /\ run.pantry_names = {}
    /\ pantry[1].name = RunIngredients[run.offered[1]].name

\* the responses made of prose, one valid JSON array of well-formed items,
\* and prose
ProseAroundArray == {"merged", "preset", "emptyarray", "trailing", "remark"}

\* C39: for every response made of leading prose, one valid JSON array of
\* well-formed items and trailing prose, whatever the prose is, process
\* succeeds and returns the records of that array.
C39_ProseAroundArrayParses ==
    (call.fn = "process" /\ call.done /\ call.kind \in ProseAroundArray) =>
        /\ call.out.raised = ""
        /\ call.out.files[call.session.id].processed_ingredients =
               IF call.kind = "emptyarray" THEN <<>>
               ELSE LlmAnswer(AllRaw(call.session), call.kind)

\* C38: when the user gives, sooner or later, a recognized answer to every
\* prompt, the pantry check ends, having prompted for each ingredient that
\* was unknown and not in the Pantry; an answer that is not recognized
\* leaves the same prompt open with the ingredient unresolved, and nothing
\* but an answer (or the end of the process) closes a prompt: there is no
\* timeout and no default.
C38_PassEndsOnRecognizedAnswers ==
    /\ (run.pc = "ask") ~> (run.pc # "ask")
    /\ [](run.pc = "checked" =>
             run.asked = {i \in 1..Len(run.start) :
                             /\ run.start[i] = "None"
                             /\ RunIngredients[i].name \notin run.pantry_names})
    /\ [][(run.pc = "ask" /\ last'.outcome # "aborted") =>
             LET i == run.to_check[run.pos]
             IN  IF run'.session[1].processed_ingredients[i].confirmed_have = "None"
                 THEN run'.pc = "ask" /\ run'.pos = run.pos /\ run'.tries = run.tries + 1
                 ELSE \E answer \in YesAnswers \cup NoAnswers : DoneAnswer(answer)]_vars

\* the pass has ended after the prompt for the one ingredient that is not in
\* the Pantry; the other ingredient was not asked about
C38_Witness ==
    /\ run.pc = "checked" /\ Cardinality(run.asked) = 1
    /\ run.pantry_names # {} /\ Len(run.start) = 2

\* the other process of the two
Other(p) == CHOOSE q \in Procs : q # p

\* C31: when the process of a mutating command is ended at any point, the
\* stored record of the session is the whole record from before the command
\* or the whole record the command writes, and the pointer record likewise:
\* no reader finds a truncated or partly written record.
C31_WritesAreAtomic ==
    call.fn = "write" =>
        \A p \in Procs :
            call.proc[Other(p)].pc = "idle" =>
                \A path \in DOMAIN call.files :
                    /\ Parses(call.files[path])
                    /\ path = session_path(call.base.id) =>
                           \/ call.files[path].head[1] = call.base
                           \/ /\ call.proc[p].session # None
                              /\ call.files[path].head = call.proc[p].session

\* C40: when two item add commands run at the same time against the current
\* session, the stored record is in the end the whole record written by the
\* command that saved last: it is never a mix of the two.
C40_LastWriteWins ==
    (call.fn = "write" /\ \A p \in Procs : call.proc[p].pc = "done" /\ call.proc[p].cmd = "item add")
        => LET last_saved == call.saved[Len(call.saved)]
               file == call.files[session_path(call.base.id)]
           IN  /\ Parses(file)
               /\ file.head = call.proc[last_saved].session

====
